---- MODULE Spec2Model ----
(***************************************************************************)
(* Model of the eodms_dds bulk-retrieval engine:                           *)
(*   - BaseDDSClient._request_with_retries   (dds/base.py)                 *)
(*   - DDSGetItems.get_item / get_items / get_items_from_results           *)
(*                                             (dds/items.py)              *)
(*   - DDSDownload.download_items / _download_with_retries                 *)
(*                                             (dds/downloads.py)          *)
(* Python's None is the string "None"; a key a dict does not hold is the   *)
(* string "MISSING".                                                       *)
(***************************************************************************)
EXTENDS Integers, Sequences, FiniteSets, TLC

None == "None"
Missing == "MISSING"

\* ------------------------------------------------------------------------
\* Bounds of the model
\* ------------------------------------------------------------------------
\* Longest input sequence given to a poll entry point.
MaxItems == 2
\* Largest max_retries argument of a direct call of _request_with_retries.
MaxRetriesArg == 3
\* Longest ready bucket given to download_items.
MaxReady == 2
\* Largest backoff_factor and max_backoff arguments (seconds) next to the
\* defaults, and the last attempt a retry sleep is computed for.
MaxBackoffFactor == 2
MaxBackoffArg == 3
MaxAttempt == 6
\* Last reading of the clock (half seconds) in a timed poll.
MaxClock == 12
\* Number of direct calls of the write methods of a store handle.
MaxCalls == 3

\* ------------------------------------------------------------------------
\* Program constants
\* ------------------------------------------------------------------------
\* max_retries default of _request_with_retries, used by get_item.
DefaultMaxRetries == 5
\* max_retries default of _download_with_retries, used by job.
DlMaxRetries == 5
\* backoff_factor and max_backoff defaults of _request_with_retries, and
\* max_backoff default of _download_with_retries (seconds).
DefaultBackoffFactor == 1
DefaultMaxBackoff == 30
DlMaxBackoff == 20

\* ------------------------------------------------------------------------
\* The poller's state
\* ------------------------------------------------------------------------
VARIABLES
    entry,          \* the entry point that was called
    n_total,        \* n_total = len(items), the length of its input sequence
    idx,            \* position of the for loop over items (1-based, next to handle)
    e,              \* the loop variable (e / qr): the element the pass is handling
    ready,          \* bucket lists of get_items*
    queued,
    unknown,
    n_done,         \* the progress counter of the finally block
    log,            \* the warnings written by the poll loop (kind, about which item)
    pc,             \* control point: "loop", "request", "sleep", "done", "raised"
    attempt,        \* loop counter of _request_with_retries
    max_retries,    \* its max_retries argument
    resp,           \* its local resp (the last response)
    ret,            \* what the direct call of _request_with_retries returned
    nGets,          \* history: GETs issued by the current executor call
    priorCodes,     \* history: status codes of the earlier responses of this call
    last,           \* history: summary of the latest loop pass / executor call
    fetched         \* history: per finished loop pass, how the item ended

pollVars == <<entry, n_total, idx, e, ready, queued, unknown, n_done, log, pc,
              attempt, max_retries, resp, ret, nGets, priorCodes, last,
              fetched>>

\* ------------------------------------------------------------------------
\* The downloader's state
\* ------------------------------------------------------------------------
VARIABLES
    dready,         \* item_info["ready"]: per item, what its download_url is
    unzip,          \* arguments of download_items
    keep_zip,
    max_workers,
    dpc,            \* control point of download_items: "build", "pool", "done", "raised"
    run,            \* 1 in the first call of download_items, 2 in a repeated call
    tasks,          \* the tasks list: for each task, the index of its ready item
    results,        \* the results list
    tpc,            \* per task: where its job (its future) is
    item,           \* per task: the ready item it was built from
    dattempt,       \* per task: loop counter of _download_with_retries
    h,              \* per task: where the file its open handle `f` is on now is
    off,            \* per task: chunks written through the handle
    expected,       \* per task: the local `expected` of the attempt
    matched,        \* history, per task: the skip-if-complete test succeeded
    res,            \* per task: the value its job returned
    files,          \* the files under out_dir/in_progress and out_dir/completed
    xdir,           \* per file name: the extraction directory completed/<stem>
    done_order,     \* the tasks whose future is finished, in the order they finished
    ac_called,      \* as_completed(futures) was called
    ac_first        \* the futures that were finished when it was called

dlVars == <<dready, unzip, keep_zip, max_workers, dpc, run, tasks, results, tpc,
            item, dattempt, h, off, expected, matched, res, files, xdir,
            done_order, ac_called, ac_first>>

\* ------------------------------------------------------------------------
\* The state of a caller's retry sleeps
\* ------------------------------------------------------------------------
VARIABLES
    bk_caller,      \* whose retry loop sleeps
    backoff_factor, \* its backoff_factor and max_backoff arguments
    max_backoff,
    bk_attempt,     \* its loop counter
    bk_cur,         \* the last retry sleep
    bk_prevExp      \* history: the last exponential sleep before it

bkVars == <<bk_caller, backoff_factor, max_backoff, bk_attempt, bk_cur, bk_prevExp>>

\* ------------------------------------------------------------------------
\* The state of a poll seen on the clock
\* ------------------------------------------------------------------------
VARIABLES
    min_interval,   \* min_interval of the poll loop
    last_ts,        \* last_ts of the poll loop
    now,            \* the clock (time.perf_counter())
    th_n,           \* n_total
    th_idx,         \* position of the loop over items
    th_pc,          \* control point: "top", "request", "inflight", "sleep", "finally", "done"
    th_attempt,     \* loop counter of _request_with_retries
    th_code,        \* status code and Retry-After header of the last response
    th_ra,
    lastStart,      \* history: when the last request started, and the one before
    prevStart

thVars == <<min_interval, last_ts, now, th_n, th_idx, th_pc, th_attempt, th_code,
            th_ra, lastStart, prevStart>>

\* ------------------------------------------------------------------------
\* The optional store and the wrapper that writes to it
\* ------------------------------------------------------------------------
VARIABLES
    db_path,        \* what db_path names: "none", "nofile", "notsqlite", "file"
    q_cols,         \* columns of the queries table of the file
    dl_cols,        \* columns of the downloads table of the file
    enabled,        \* self.enabled of the handle
    rows,           \* the rows of the downloads table
    q_rows,         \* the number of rows of the queries table
    query_id,       \* what record_query returned: {} is None
    db_last,        \* history: the last call of a write method and its outcome
    db_log,         \* history: the writes the store took, in order
    lastCall,       \* history: per product id, the last mark method called
    lastStored,     \* history: per product id, the last status the store took
    n_calls,        \* number of direct calls made
    write_failed,   \* history: a write of the enabled handle raised
    db_pc           \* control point of the caller of the handle

dbVars == <<db_path, q_cols, dl_cols, enabled, rows, q_rows, query_id, db_last,
            db_log, lastCall, lastStored, n_calls, write_failed, db_pc>>

VARIABLES
    w_kind,         \* "direct", or the wrapper: "rcm_client", "dds_with_db"
    w_ready,        \* item_info["ready"]
    w_idx,          \* position of the pre-marking loop
    w_j,            \* position of the loops after the downloads
    w_results,      \* results, as the wrapper holds them
    w_plain,        \* history: what super().download_items returned
    w_ret,          \* what the wrapper returned
    succeeded,      \* succeeded of rcm_client
    w_buckets       \* buckets returned by record_query_and_get_items

wrapVars == <<w_kind, w_ready, w_idx, w_j, w_results, w_plain, w_ret, succeeded,
              w_buckets>>

\* The downloads table column by column (rcm_db.py).
VARIABLES
    table,          \* the downloads table: product id -> its row, or NoRow
    tick,           \* readings of datetime('now') taken so far
    last_mark,      \* history: the last statement executed and its VALUES row
    lw              \* a wrapper marking one ready item: where it is, the item

colVars == <<table, tick, last_mark, lw>>

\* One call of a retry loop, with what each attempt met.
VARIABLES
    rt_caller,      \* "_request_with_retries" or "_download_with_retries"
    rt_max,         \* max_retries of the call
    rt_attempt,     \* attempt of the for loop
    rt_seen,        \* history: what each attempt so far met
    rt_sleeps,      \* history: number of backoff sleeps so far
    rt_pc           \* "attempt", or how the call ended: "returned", "raised"

rtVars == <<rt_caller, rt_max, rt_attempt, rt_seen, rt_sleeps, rt_pc>>

vars == <<pollVars, dlVars, bkVars, thVars, dbVars, wrapVars, colVars, rtVars>>

\* What the actions of one component leave unchanged.
outsidePoll == <<dlVars, bkVars, thVars, dbVars, wrapVars, colVars, rtVars>>
outsideDl == <<pollVars, bkVars, thVars, dbVars, wrapVars, colVars, rtVars>>
outsideBackoff == <<pollVars, dlVars, thVars, dbVars, wrapVars, colVars, rtVars>>
outsideThrottle == <<pollVars, dlVars, bkVars, dbVars, wrapVars, colVars, rtVars>>
outsideDb == <<pollVars, dlVars, bkVars, thVars, colVars, rtVars>>
outsideColumns == <<pollVars, dlVars, bkVars, thVars, dbVars, wrapVars, rtVars>>
outsideRetry == <<pollVars, dlVars, bkVars, thVars, dbVars, wrapVars, colVars>>

\* ------------------------------------------------------------------------
\* Inputs of the poller
\* ------------------------------------------------------------------------
\* get_items: dicts that should hold 'collectionId' and 'archiveId'.
Entries ==
    { [collectionId |-> c, archiveId |-> a] :
        c \in {Missing, "", "c1"}, a \in {Missing, "", "a1"} }

CollKeys == <<"collectionId", "collectionID", "collection", "collection_name">>
ArchKeys == <<"archiveId", "datasetId", "recordId", "featureId">>

QD(c, a) == [coll |-> c, arch |-> a]

\* get_items_from_results: objects with uuid and query_data; coll and arch
\* hold the values of query_data under CollKeys and ArchKeys, in that order
\* (a query_data of None or {} holds none of them: qd = qr.query_data or {}).
QueryResults ==
    { [uuid |-> "u1", query_data |-> QD(<<"c1", Missing, Missing, Missing>>,
                                        <<"a1", Missing, Missing, Missing>>)],
      [uuid |-> None, query_data |-> QD(<<"", Missing, "c3", "c4">>,
                                        <<Missing, "", Missing, "a4">>)],
      [uuid |-> "u1", query_data |-> QD(<<Missing, "c2", Missing, Missing>>,
                                        <<Missing, "", Missing, Missing>>)],
      [uuid |-> None, query_data |-> QD(<<"c1", Missing, Missing, Missing>>,
                                        <<Missing, Missing, "", Missing>>)],
      [uuid |-> "",   query_data |-> QD(<<"c1", "c2", Missing, Missing>>,
                                        <<Missing, Missing, Missing, Missing>>)],
      [uuid |-> "u1", query_data |-> QD(<<"", None, Missing, Missing>>,
                                        <<"a1", Missing, Missing, Missing>>)],
      [uuid |-> "u1", query_data |-> QD(<<>>, <<>>)] }

\* The loop variable before the first pass, and in a direct executor call.
NoElem == [uuid |-> None, query_data |-> QD(<<>>, <<>>)]

\* ------------------------------------------------------------------------
\* Responses of the catalog (aaa.prepare_request)
\* ------------------------------------------------------------------------
\* JSON bodies of a 200/202 answer: one that json() rejects, the JSON value
\* null, a JSON value that is no object, and objects with or without status.
Statuses == {"Available", "Queued", "Other", Missing}
Bodies == {"invalid", "null", "list"} \cup Statuses

\* A response is [present, code, body]; present = FALSE is a response object
\* of None (no status_code), whose code and body are never read.
NoResp == [present |-> FALSE, code |-> 0, body |-> "invalid"]

Responses ==
    { [present |-> TRUE, code |-> c, body |-> b] : c \in {200, 202}, b \in Bodies }
    \cup { [present |-> TRUE, code |-> c, body |-> "invalid"] : c \in {404, 429, 500, 503, 599} }
    \cup { NoResp }

\* code = getattr(resp, "status_code", None); 0 stands for None.
CodeOf(r) == IF r.present THEN r.code ELSE 0

\* ------------------------------------------------------------------------
\* BaseDDSClient._request_with_retries
\* ------------------------------------------------------------------------
IsSuccess(code) == code \in {200, 202}

IsRetryable(code) == code = 429 \/ (code # 0 /\ 500 <= code /\ code < 600)

\* Faulty variants of ExecDecision: one retry too few; a sleep after the last
\* attempt.
MutExecDecisionEarly(code, att, maxr) ==
    IF IsSuccess(code) THEN "return"
    ELSE IF IsRetryable(code) /\ att + 1 < maxr THEN "retry"
    ELSE "return"

MutExecDecisionSleepLast(code, att, maxr) ==
    IF IsSuccess(code) THEN "return"
    ELSE IF IsRetryable(code) /\ att <= maxr THEN "retry"
    ELSE "return"

\* One pass of the attempt loop after the GET answered with `code`.
ExecDecision(code, att, maxr) ==
    IF IsSuccess(code) THEN "return"
    ELSE IF IsRetryable(code) /\ att < maxr THEN "retry"
    ELSE "return"

\* ------------------------------------------------------------------------
\* DDSGetItems.get_item: the value returned for the executor's response.
\* ------------------------------------------------------------------------
\* data is [kind, status]: kind "None" (get_item returned None), "list" (a
\* JSON value that is no mapping) or "dict" (a mapping, status "MISSING" when
\* it has no status key).
NoData == [kind |-> "None", status |-> Missing]

\* Faulty variant of GetItem: the body is parsed whatever the status code is.
MutGetItemNoStatusCheck(r) ==
    IF ~r.present THEN NoData
    ELSE IF r.code = 200 \/ r.code = 202
         THEN (IF r.body = "invalid" \/ r.body = "null" THEN NoData
               ELSE IF r.body = "list" THEN [kind |-> "list", status |-> Missing]
               ELSE [kind |-> "dict", status |-> r.body])
    ELSE [kind |-> "dict", status |-> Missing]

GetItem(r) ==
    IF ~r.present THEN NoData
    ELSE IF r.code = 200 \/ r.code = 202
         THEN (IF r.body = "invalid" \/ r.body = "null" THEN NoData
               ELSE IF r.body = "list" THEN [kind |-> "list", status |-> Missing]
               ELSE [kind |-> "dict", status |-> r.body])
    ELSE NoData

\* ------------------------------------------------------------------------
\* get_items_from_results._resolve_ids
\* ------------------------------------------------------------------------
Truthy(v) == v # Missing /\ v # None /\ v # ""

FirstTruthy(vals) ==
    LET hits == { i \in 1..Len(vals) : Truthy(vals[i]) }
    IN  IF hits = {} THEN None
        ELSE vals[CHOOSE i \in hits : \A j \in hits : i <= j]

\* <<coll, arch>>, or <<>> for None.
ResolveIds(qr) ==
    LET qd   == qr.query_data
        coll == FirstTruthy(qd.coll)
        a0   == FirstTruthy(qd.arch)
        arch == IF a0 = None /\ Truthy(qr.uuid) THEN qr.uuid ELSE a0
    IN  IF coll # None /\ arch # None THEN <<coll, arch>> ELSE <<>>

\* ------------------------------------------------------------------------
\* Bucketing of get_items / get_items_from_results
\* ------------------------------------------------------------------------
\* Faulty variant of BucketOf: a record without status is put in no bucket.
MutBucketOf(st) ==
    IF st = "Available" THEN "ready"
    ELSE IF st = "Queued" THEN "queued"
    ELSE IF st = Missing THEN "none"
    ELSE "unknown"

BucketOf(st) ==
    IF st = "Available" THEN "ready"
    ELSE IF st = "Queued" THEN "queued"
    ELSE "unknown"

Rec(i, st) == [src |-> i, status |-> st]

IsPoll == entry \in {"get_items", "get_items_from_results"}

\* history of the latest loop pass (or executor call): which item, how it
\* ended, how many GETs it took, the final response, and the status codes of
\* the responses before the final one.
NoLast == [item |-> 0, result |-> "none", gets |-> 0, resp |-> NoResp, prior |-> {}]

\* history entry of a finished pass: result "unresolved", "failed" (get_item
\* returned None) or "record" (it returned a mapping with this status).
Fetched(result, st) == [result |-> result, status |-> st]

\* The file names the download URLs lead to, the three places a file of a
\* download can be at, and out_dir before anything was downloaded.
Names == {"a.zip", "b.zip", "download.bin"}

Dirs == {"part", "ip", "fin"}

Paths == Dirs \X Names

EmptyFs == [p \in Paths |-> "absent"]

Finally == n_done' = n_done + 1

\* ------------------------------------------------------------------------
\* for e in items: ... (the head of one pass, up to the call of get_item)
\* The elements of the input are drawn when the loop reaches them: the code
\* reads none of them earlier.
\* ------------------------------------------------------------------------
\* get_items: e["collectionId"], e["archiveId"] evaluate, get_item is entered.
StartEntry ==
    /\ pc = "loop" /\ entry = "get_items" /\ idx <= n_total
    /\ \E x \in Entries :
        /\ x.collectionId # Missing /\ x.archiveId # Missing
        /\ e' = x
    /\ pc' = "request" /\ attempt' = 1 /\ resp' = NoResp
    /\ nGets' = 0 /\ priorCodes' = {} /\ last' = NoLast
    /\ UNCHANGED <<entry, n_total, idx, ready, queued, unknown, n_done, log,
                   max_retries, ret, fetched>>
    /\ UNCHANGED outsidePoll

\* get_items: a missing key raises KeyError; the finally block runs and the
\* exception leaves get_items.
StartEntryKeyError ==
    /\ pc = "loop" /\ entry = "get_items" /\ idx <= n_total
    /\ \E x \in Entries :
        /\ (x.collectionId = Missing \/ x.archiveId = Missing)
        /\ e' = x
    /\ Finally
    /\ pc' = "raised"
    /\ last' = [item |-> idx, result |-> "KeyError", gets |-> 0, resp |-> NoResp,
                prior |-> {}]
    /\ UNCHANGED <<entry, n_total, idx, ready, queued, unknown, log,
                   attempt, max_retries, resp, ret, nGets, priorCodes, fetched>>
    /\ UNCHANGED outsidePoll

\* get_items_from_results: the ids resolve, get_item is entered.
StartResult ==
    /\ pc = "loop" /\ entry = "get_items_from_results" /\ idx <= n_total
    /\ \E x \in QueryResults :
        /\ ResolveIds(x) # <<>>
        /\ e' = x
    /\ pc' = "request" /\ attempt' = 1 /\ resp' = NoResp
    /\ nGets' = 0 /\ priorCodes' = {} /\ last' = NoLast
    /\ UNCHANGED <<entry, n_total, idx, ready, queued, unknown, n_done, log,
                   max_retries, ret, fetched>>
    /\ UNCHANGED outsidePoll

\* get_items_from_results: the ids do not resolve: warning, continue.
SkipUnresolved ==
    /\ pc = "loop" /\ entry = "get_items_from_results" /\ idx <= n_total
    /\ \E x \in QueryResults :
        /\ ResolveIds(x) = <<>>
        /\ e' = x
    /\ log' = Append(log, <<"skip-unresolved", idx>>)
    /\ Finally
    /\ idx' = idx + 1
    /\ last' = [item |-> idx, result |-> "unresolved", gets |-> 0, resp |-> NoResp,
                prior |-> {}]
    /\ fetched' = Append(fetched, Fetched("unresolved", Missing))
    /\ UNCHANGED <<entry, n_total, ready, queued, unknown, pc,
                   attempt, max_retries, resp, ret, nGets, priorCodes>>
    /\ UNCHANGED outsidePoll

\* return {"ready": ready, "queued": queued, "unknown": unknown}
ReturnBuckets ==
    /\ pc = "loop" /\ IsPoll /\ idx > n_total
    /\ pc' = "done"
    /\ UNCHANGED <<entry, n_total, idx, e, ready, queued, unknown, n_done, log,
                   attempt, max_retries, resp, ret, nGets, priorCodes, last,
                   fetched>>
    /\ UNCHANGED outsidePoll

\* ------------------------------------------------------------------------
\* What the caller does with the response the executor returns.
\* ------------------------------------------------------------------------
\* get_item turns r into data; the poll loop buckets it, logs, runs finally.
PollReturn(r, gets, prior) ==
    LET data == GetItem(r) IN
    IF data.kind = "None"
    THEN /\ log' = Append(log, <<"fetch-failure", idx>>)
         /\ Finally
         /\ idx' = idx + 1 /\ pc' = "loop"
         /\ last' = [item |-> idx, result |-> "failed", gets |-> gets, resp |-> r,
                     prior |-> prior]
         /\ fetched' = Append(fetched, Fetched("failed", Missing))
         /\ UNCHANGED <<ready, queued, unknown>>
    ELSE IF data.kind # "dict"
    THEN \* data.get raises AttributeError; finally runs; the poll is left
         /\ Finally
         /\ pc' = "raised"
         /\ last' = [item |-> idx, result |-> "AttributeError", gets |-> gets,
                     resp |-> r, prior |-> prior]
         /\ UNCHANGED <<ready, queued, unknown, idx, log, fetched>>
    ELSE /\ LET b == BucketOf(data.status) IN
            /\ ready'   = IF b = "ready"   THEN Append(ready, Rec(idx, data.status)) ELSE ready
            /\ queued'  = IF b = "queued"  THEN Append(queued, Rec(idx, data.status)) ELSE queued
            /\ unknown' = IF b = "unknown" THEN Append(unknown, Rec(idx, data.status)) ELSE unknown
         /\ Finally
         /\ idx' = idx + 1 /\ pc' = "loop"
         /\ last' = [item |-> idx, result |-> "record", gets |-> gets, resp |-> r,
                     prior |-> prior]
         /\ fetched' = Append(fetched, Fetched("record", data.status))
         /\ UNCHANGED log

\* The locals of the finished executor call (attempt, resp) and its history
\* counters are dropped when control is back in the poll loop.
ExecReturn(r, gets, prior) ==
    IF IsPoll
    THEN /\ PollReturn(r, gets, prior)
         /\ attempt' = 1 /\ resp' = NoResp /\ nGets' = 0 /\ priorCodes' = {}
         /\ UNCHANGED ret
    ELSE /\ ret' = r /\ pc' = "done"
         /\ resp' = r /\ nGets' = gets
         /\ last' = [item |-> 0, result |-> "returned", gets |-> gets, resp |-> r,
                     prior |-> prior]
         /\ UNCHANGED <<ready, queued, unknown, idx, log, n_done, attempt, priorCodes,
                        fetched>>

\* ------------------------------------------------------------------------
\* _request_with_retries: one pass of `for attempt in range(1, max_retries+1)`
\* ------------------------------------------------------------------------
\* The GET answers and the pass returns the response to the caller.
RequestReturn ==
    /\ pc = "request" /\ attempt <= max_retries
    /\ \E r \in Responses :
        /\ ExecDecision(CodeOf(r), attempt, max_retries) = "return"
        /\ ExecReturn(r, nGets + 1, priorCodes)
    /\ UNCHANGED <<entry, n_total, e, max_retries>>
    /\ UNCHANGED outsidePoll

\* The GET answers 429/5xx and attempts remain: on to _sleep_for_retry (the
\* debug line written here is not modelled).
RequestRetry ==
    /\ pc = "request" /\ attempt <= max_retries
    /\ \E r \in Responses :
        /\ ExecDecision(CodeOf(r), attempt, max_retries) = "retry"
        /\ resp' = r
    /\ nGets' = nGets + 1
    /\ pc' = "sleep"
    /\ UNCHANGED <<entry, n_total, idx, e, ready, queued, unknown, n_done, log,
                   attempt, max_retries, ret, priorCodes, last, fetched>>
    /\ UNCHANGED outsidePoll

\* The GET raises (transport failure): nothing catches it; in a poll the
\* finally block runs on the way out.
RequestRaises ==
    /\ pc = "request" /\ attempt <= max_retries
    /\ nGets' = nGets + 1
    /\ pc' = "raised"
    /\ IF IsPoll THEN Finally ELSE UNCHANGED n_done
    /\ last' = [item |-> idx, result |-> "transport", gets |-> nGets + 1,
                resp |-> NoResp, prior |-> priorCodes]
    /\ UNCHANGED <<entry, n_total, idx, e, ready, queued, unknown, log,
                   attempt, max_retries, resp, ret, priorCodes, fetched>>
    /\ UNCHANGED outsidePoll

\* _sleep_for_retry returns; continue with the next attempt.
SleepForRetry ==
    /\ pc = "sleep"
    /\ attempt' = attempt + 1
    /\ priorCodes' = priorCodes \cup {CodeOf(resp)}
    /\ pc' = "request"
    /\ UNCHANGED <<entry, n_total, idx, e, ready, queued, unknown, n_done, log,
                   max_retries, resp, ret, nGets, last, fetched>>
    /\ UNCHANGED outsidePoll

\* range(1, max_retries + 1) is exhausted: `return resp` after the loop.
LoopExhausted ==
    /\ pc = "request" /\ attempt > max_retries
    /\ ExecReturn(resp, nGets, priorCodes)
    /\ UNCHANGED <<entry, n_total, e, max_retries>>
    /\ UNCHANGED outsidePoll

NextPoll ==
    \/ StartEntry
    \/ StartEntryKeyError
    \/ StartResult
    \/ SkipUnresolved
    \/ ReturnBuckets
    \/ RequestReturn
    \/ RequestRetry
    \/ RequestRaises
    \/ SleepForRetry
    \/ LoopExhausted


\* ========================================================================
\* DDSDownload.download_items
\* ========================================================================

\* ------------------------------------------------------------------------
\* Inputs of the downloader
\* ------------------------------------------------------------------------
\* A download URL is [base, size, data]: the basename of its path ("" when the
\* path ends in "/"), the text of its size query parameter ("MISSING" without
\* one) and the body the server holds for it. Bodies are one chunk long.
\* A ready item is [archiveId, datasetId, serviceUuid, download_url].
Item(a, d, s, u) == [archiveId |-> a, datasetId |-> d, serviceUuid |-> s,
                     download_url |-> u]

Url(b, s, d) == [base |-> b, size |-> s, data |-> d]

\* download_url of an item that has none (the key is absent or None) or an
\* empty one.
NoUrl == Url("", Missing, "")
EmptyUrl == Url("", "", "")

\* Ready items that carry a URL: a sized zip archive, a sized archive whose
\* bytes are no valid zip, and an unsized URL without basename and ids.
ItemsWithUrl ==
    { Item("p1", Missing, Missing, Url("a.zip", "1", "zip")),
      Item(Missing, "p2", Missing, Url("b.zip", "1", "notzip")),
      Item(Missing, "", Missing, Url("", "abc", "raw")) }

\* aid = it.get("archiveId") or it.get("datasetId") or it.get("serviceUuid") or "unknown"
AidOf(it) ==
    IF Truthy(it.archiveId) THEN it.archiveId
    ELSE IF Truthy(it.datasetId) THEN it.datasetId
    ELSE IF Truthy(it.serviceUuid) THEN it.serviceUuid
    ELSE "unknown"

\* filename = os.path.basename(urlparse(url).path) or "download.bin"
Filename(u) == IF u.base = "" THEN "download.bin" ELSE u.base

\* fin_path.lower().endswith(".zip")
IsZip(n) == n \in {"a.zip", "b.zip"}

\* int(qs["size"][0]) of the texts that occur; {} is None (no parameter, or
\* int() raised).
ExpectedSizeOfUrl(u) == IF u.size = "1" THEN {1} ELSE {}

\* _parse_expected_size(url, resp): the size parameter, else Content-Length
\* (cl is {} for resp = None or a response without the header).
ParseExpectedSize(u, cl) ==
    IF ExpectedSizeOfUrl(u) # {} THEN ExpectedSizeOfUrl(u) ELSE cl

\* ------------------------------------------------------------------------
\* The file system under out_dir
\* ------------------------------------------------------------------------
\* A file is at <<dir, name>>: dir "part" is in_progress/<name>.part, "ip" is
\* in_progress/<name>, "fin" is completed/<name>. Its content is "absent",
\* "empty" (zero bytes) or the body (one chunk) it holds.
SizeOf(c) == IF c = "empty" THEN 0 ELSE 1

\* os.replace(src, dst) on the files, and on the open handles: a handle stays
\* with its file, and the file that was at dst is unlinked.
FsReplace(f, n, src, dst) ==
    [f EXCEPT ![<<dst, n>>] = f[<<src, n>>], ![<<src, n>>] = "absent"]

\* Faulty variant of FsRemove: the file is left where it is.
MutFsRemoveNothing(f, n, d) == f

\* os.remove(path)
FsRemove(f, n, d) == [f EXCEPT ![<<d, n>>] = "absent"]

TaskIds == 1..Len(tasks)

NameOf(t) == Filename(item[t].download_url)

Running ==
    { t \in TaskIds : tpc[t] \notin {"queued", "ok", "failed", "collected", "dropped"} }

\* The future of task t is finished and was not yet taken from as_completed.
Finished(t) == tpc[t] \in {"ok", "failed"}

\* The future of task t was taken from as_completed.
Taken(t) == tpc[t] \in {"collected", "dropped"}

\* Faulty variant of WorkerFree: the pool starts a thread for every task.
MutWorkerFreeAlways(busy, mw) == TRUE

\* Faulty variant of WorkerFree: the pool never starts a job.
MutWorkerFreeNever(busy, mw) == FALSE

\* ThreadPoolExecutor(max_workers=max_workers): a queued job is run when
\* fewer than max_workers workers are busy.
WorkerFree(busy, mw) == busy < mw

\* The work queue of the pool is first in, first out.
NextInQueue(t) == \A u \in TaskIds : u < t => tpc[u] # "queued"

\* Kept with every step of download_items: a future that finishes is added
\* to the finished ones, in order; a new call starts with none.
PoolTracks ==
    /\ done_order' =
          IF dpc = "build" THEN <<>>
          ELSE LET new == { t \in TaskIds : ~Finished(t) /\ ~Taken(t)
                                             /\ tpc'[t] \in {"ok", "failed"} }
               IN  IF new = {} THEN done_order
                   ELSE Append(done_order, CHOOSE t \in new : TRUE)
    /\ ac_called' = IF dpc = "build" THEN FALSE ELSE ac_called
    /\ ac_first' = IF dpc = "build" THEN {} ELSE ac_first

NoItem == Item(Missing, Missing, Missing, NoUrl)

NoRes == [task |-> 0, archiveId |-> "", dest |-> "", extracted_dir |-> None]

\* A ready bucket: per item, whether it has a download_url, an empty one, or
\* none; the items that have one are drawn when their job starts.
ReadyKinds == {"url", "empty", "none"}

\* The indexes of the ready items with a truthy download_url, in order.
RECURSIVE TasksOfFrom(_, _)
TasksOfFrom(rdy, i) ==
    IF i > Len(rdy) THEN <<>>
    ELSE IF rdy[i] = "url" THEN <<i>> \o TasksOfFrom(rdy, i + 1)
    ELSE TasksOfFrom(rdy, i + 1)

\* Faulty variant of TasksOf: a task for every ready item.
MutTasksOf(rdy) == [i \in 1..Len(rdy) |-> i]

TasksOf(rdy) == TasksOfFrom(rdy, 1)

\* for it in ready: ... tasks.append((url, aid)); `if not tasks: return []`;
\* the two makedirs; every job is submitted to the pool.
BuildTasks ==
    /\ dpc = "build"
    /\ LET ts == TasksOf(dready) IN
        /\ tasks' = ts
        /\ dpc' = IF ts = <<>> THEN "done" ELSE "pool"
        /\ tpc' = [t \in 1..Len(ts) |-> "queued"]
        /\ item' = IF run = 1 THEN [t \in 1..Len(ts) |-> NoItem] ELSE item
        /\ dattempt' = [t \in 1..Len(ts) |-> 1]
        /\ h' = [t \in 1..Len(ts) |-> "closed"]
        /\ off' = [t \in 1..Len(ts) |-> 0]
        /\ expected' = [t \in 1..Len(ts) |-> {}]
        /\ matched' = [t \in 1..Len(ts) |-> FALSE]
        /\ res' = [t \in 1..Len(ts) |-> NoRes]
    /\ results' = <<>>
    /\ UNCHANGED <<dready, unzip, keep_zip, max_workers, run, files, xdir>>
    /\ PoolTracks
    /\ UNCHANGED outsideDl

\* ------------------------------------------------------------------------
\* job(idx, url, aid), run by a pool worker
\* ------------------------------------------------------------------------
Result(t, it, xd) ==
    [task |-> t, archiveId |-> AidOf(it), dest |-> Filename(it.download_url),
     extracted_dir |-> xd]

\* The `except Exception` handler of one attempt of _download_with_retries,
\* run on files f and handles hh: remove the .part file if it exists; raise
\* out of the job after the last attempt, else sleep and go to the next one.
LastAttempt(a) == a >= DlMaxRetries

AttemptFailed(t, f, hh) ==
    LET n == NameOf(t) IN
    /\ files' = FsRemove(f, n, "part")
    /\ h' = [u \in TaskIds |->
               IF u = t THEN "closed"
               ELSE IF hh[u] = "part" /\ NameOf(u) = n /\ f[<<"part", n>>] # "absent"
                    THEN "unlinked"
               ELSE hh[u]]
    /\ off' = [off EXCEPT ![t] = 0]
    /\ expected' = [expected EXCEPT ![t] = {}]
    /\ IF LastAttempt(dattempt[t])
       THEN tpc' = [tpc EXCEPT ![t] = "failed"] /\ UNCHANGED dattempt
       ELSE /\ tpc' = [tpc EXCEPT ![t] = "get"]
            /\ dattempt' = [dattempt EXCEPT ![t] = @ + 1]

\* The job begins; the skip-if-complete test finds no complete file.
JobStart(t) ==
    /\ dpc = "pool" /\ tpc[t] = "queued"
    /\ WorkerFree(Cardinality(Running), max_workers)
    /\ NextInQueue(t)
    /\ \E it \in ItemsWithUrl :
        /\ (run = 2 => it = item[t])
        /\ item' = [item EXCEPT ![t] = it]
        /\ LET u   == it.download_url
               n   == Filename(u)
               exp == ExpectedSizeOfUrl(u)
           IN  /\ ~(exp # {} /\ files[<<"fin", n>>] # "absent"
                      /\ SizeOf(files[<<"fin", n>>]) \in exp)
    /\ tpc' = [tpc EXCEPT ![t] = "get"]
    /\ UNCHANGED <<dready, unzip, keep_zip, max_workers, dpc, run, tasks, results,
                   dattempt, h, off, expected, matched, res, files, xdir>>
    /\ PoolTracks
    /\ UNCHANGED outsideDl

\* The job begins; completed/<name> exists with the expected size: the job
\* returns its result at once, or goes on to unzip the file that is there.
JobStartSkip(t) ==
    /\ dpc = "pool" /\ tpc[t] = "queued"
    /\ WorkerFree(Cardinality(Running), max_workers)
    /\ NextInQueue(t)
    /\ \E it \in ItemsWithUrl :
        /\ (run = 2 => it = item[t])
        /\ item' = [item EXCEPT ![t] = it]
        /\ LET u   == it.download_url
               n   == Filename(u)
               exp == ExpectedSizeOfUrl(u)
           IN  /\ exp # {} /\ files[<<"fin", n>>] # "absent"
               /\ SizeOf(files[<<"fin", n>>]) \in exp
               /\ IF unzip /\ IsZip(n)
                  THEN tpc' = [tpc EXCEPT ![t] = "skip_unzip"] /\ UNCHANGED res
                  ELSE /\ tpc' = [tpc EXCEPT ![t] = "ok"]
                       /\ res' = [res EXCEPT ![t] = Result(t, it, None)]
    /\ matched' = [matched EXCEPT ![t] = TRUE]
    /\ UNCHANGED <<dready, unzip, keep_zip, max_workers, dpc, run, tasks, results,
                   dattempt, h, off, expected, files, xdir>>
    /\ PoolTracks
    /\ UNCHANGED outsideDl

\* _maybe_unzip: makedirs(extract_dir), extractall, remove the zip unless
\* keep_zip. ok is whether ZipFile/extractall went through.
UnzipOk(c) == c = "zip"

\* The skip path unzips. An exception (the file is gone, or is no valid zip)
\* is swallowed by `except Exception: pass` and the job goes on to download.
SkipUnzip(t) ==
    /\ dpc = "pool" /\ tpc[t] = "skip_unzip"
    /\ LET n == NameOf(t) IN
        IF UnzipOk(files[<<"fin", n>>])
        THEN /\ xdir' = [xdir EXCEPT ![n] = "extracted"]
             /\ files' = IF keep_zip THEN files ELSE FsRemove(files, n, "fin")
             /\ h' = IF keep_zip THEN h
                     ELSE [u \in TaskIds |->
                             IF h[u] = "fin" /\ NameOf(u) = n THEN "unlinked" ELSE h[u]]
             /\ tpc' = [tpc EXCEPT ![t] = "ok"]
             /\ res' = [res EXCEPT ![t] = Result(t, item[t], n)]
        ELSE /\ xdir' = [xdir EXCEPT ![n] = IF @ = "absent" THEN "empty" ELSE @]
             /\ tpc' = [tpc EXCEPT ![t] = "get"]
             /\ UNCHANGED <<files, h, res>>
    /\ UNCHANGED <<dready, unzip, keep_zip, max_workers, dpc, run, tasks, results,
                   item, dattempt, off, expected, matched>>
    /\ PoolTracks
    /\ UNCHANGED outsideDl

\* requests.get answers 429/5xx and attempts remain: sleep, continue.
GetRetryStatus(t) ==
    /\ dpc = "pool" /\ tpc[t] = "get"
    /\ ~LastAttempt(dattempt[t])
    /\ dattempt' = [dattempt EXCEPT ![t] = @ + 1]
    /\ UNCHANGED <<dready, unzip, keep_zip, max_workers, dpc, run, tasks, results,
                   tpc, item, h, off, expected, matched, res, files, xdir>>
    /\ PoolTracks
    /\ UNCHANGED outsideDl

\* requests.get raises, or raise_for_status raises (a 4xx, or a 429/5xx on
\* the last attempt): the handler runs.
GetFails(t) ==
    /\ dpc = "pool" /\ tpc[t] = "get"
    /\ AttemptFailed(t, files, h)
    /\ UNCHANGED <<dready, unzip, keep_zip, max_workers, dpc, run, tasks, results,
                   item, matched, res, xdir>>
    /\ PoolTracks
    /\ UNCHANGED outsideDl

\* requests.get answers with a status that raise_for_status accepts, with or
\* without Content-Length; open(tmp, "wb") creates or truncates the .part file.
GetOk(t) ==
    /\ dpc = "pool" /\ tpc[t] = "get"
    /\ \E cl \in {{}, {1}} :
        expected' = [expected EXCEPT ![t] = ParseExpectedSize(item[t].download_url, cl)]
    /\ files' = [files EXCEPT ![<<"part", NameOf(t)>>] = "empty"]
    /\ h' = [h EXCEPT ![t] = "part"]
    /\ off' = [off EXCEPT ![t] = 0]
    /\ tpc' = [tpc EXCEPT ![t] = "stream"]
    /\ UNCHANGED <<dready, unzip, keep_zip, max_workers, dpc, run, tasks, results,
                   item, dattempt, matched, res, xdir>>
    /\ PoolTracks
    /\ UNCHANGED outsideDl

\* f.write(chunk_bytes): the chunk goes to the file the handle is on.
StreamWrite(t) ==
    /\ dpc = "pool" /\ tpc[t] = "stream" /\ off[t] = 0
    /\ off' = [off EXCEPT ![t] = 1]
    /\ IF h[t] \in Dirs
       THEN /\ files' = [files EXCEPT ![<<h[t], NameOf(t)>>] = item[t].download_url.data]
       ELSE UNCHANGED <<files>>
    /\ UNCHANGED <<dready, unzip, keep_zip, max_workers, dpc, run, tasks, results,
                   tpc, item, dattempt, h, expected, matched, res, xdir>>
    /\ PoolTracks
    /\ UNCHANGED outsideDl

\* iter_content ends (after the whole body, or short of it without an
\* error); the file is closed; then the size check, when the URL names a size.
StreamEnd(t) ==
    /\ dpc = "pool" /\ tpc[t] = "stream"
    /\ h' = [h EXCEPT ![t] = "closed"]
    /\ tpc' = [tpc EXCEPT ![t] =
                 IF ParseExpectedSize(item[t].download_url, {}) # {}
                 THEN "check" ELSE "replace1"]
    /\ UNCHANGED <<dready, unzip, keep_zip, max_workers, dpc, run, tasks, results,
                   item, dattempt, off, expected, matched, res, files, xdir>>
    /\ PoolTracks
    /\ UNCHANGED outsideDl

\* iter_content (or the write) raises: the file is closed, the handler runs.
StreamRaises(t) ==
    /\ dpc = "pool" /\ tpc[t] = "stream"
    /\ AttemptFailed(t, files, h)
    /\ UNCHANGED <<dready, unzip, keep_zip, max_workers, dpc, run, tasks, results,
                   item, matched, res, xdir>>
    /\ PoolTracks
    /\ UNCHANGED outsideDl

\* exp = _parse_expected_size(url, None); os.path.getsize(tmp) raises when
\* the file is gone, IOError on a mismatch: the handler runs.
SizeCheck(t) ==
    /\ dpc = "pool" /\ tpc[t] = "check"
    /\ LET c   == files[<<"part", NameOf(t)>>]
           exp == ParseExpectedSize(item[t].download_url, {})
       IN  IF c # "absent" /\ SizeOf(c) \in exp
           THEN /\ tpc' = [tpc EXCEPT ![t] = "replace1"]
                /\ UNCHANGED <<dattempt, h, off, expected, files>>
           ELSE AttemptFailed(t, files, h)
    /\ UNCHANGED <<dready, unzip, keep_zip, max_workers, dpc, run, tasks, results,
                   item, matched, res, xdir>>
    /\ PoolTracks
    /\ UNCHANGED outsideDl

\* The handles after os.replace(src, dst) of the file named n.
HReplace(hh, n, src, dst) ==
    [u \in DOMAIN hh |->
        IF hh[u] = dst /\ NameOf(u) = n THEN "unlinked"
        ELSE IF hh[u] = src /\ NameOf(u) = n THEN dst
        ELSE hh[u]]

\* os.replace(tmp, dest); return dest. It raises when tmp is gone.
Replace1(t) ==
    /\ dpc = "pool" /\ tpc[t] = "replace1"
    /\ LET n == NameOf(t) IN
        IF files[<<"part", n>>] # "absent"
        THEN /\ files' = FsReplace(files, n, "part", "ip")
             /\ h' = HReplace(h, n, "part", "ip")
             /\ tpc' = [tpc EXCEPT ![t] = "replace2"]
             /\ UNCHANGED <<dattempt, off, expected>>
        ELSE AttemptFailed(t, files, h)
    /\ UNCHANGED <<dready, unzip, keep_zip, max_workers, dpc, run, tasks, results,
                   item, matched, res, xdir>>
    /\ PoolTracks
    /\ UNCHANGED outsideDl

\* os.replace(final_tmp, fin_path) in job; it raises when the file is gone,
\* and the job fails. Without unzip the job returns its result.
Replace2(t) ==
    /\ dpc = "pool" /\ tpc[t] = "replace2"
    /\ LET n == NameOf(t) IN
        IF files[<<"ip", n>>] # "absent"
        THEN /\ files' = FsReplace(files, n, "ip", "fin")
             /\ h' = HReplace(h, n, "ip", "fin")
             /\ IF unzip /\ IsZip(n)
                THEN tpc' = [tpc EXCEPT ![t] = "unzip"] /\ UNCHANGED res
                ELSE /\ tpc' = [tpc EXCEPT ![t] = "ok"]
                     /\ res' = [res EXCEPT ![t] = Result(t, item[t], None)]
        ELSE /\ tpc' = [tpc EXCEPT ![t] = "failed"]
             /\ UNCHANGED <<files, h, res>>
    /\ UNCHANGED <<dready, unzip, keep_zip, max_workers, dpc, run, tasks, results,
                   item, dattempt, off, expected, matched, xdir>>
    /\ PoolTracks
    /\ UNCHANGED outsideDl

\* _maybe_unzip after the download; an exception fails the job.
Unzip(t) ==
    /\ dpc = "pool" /\ tpc[t] = "unzip"
    /\ LET n == NameOf(t) IN
        IF UnzipOk(files[<<"fin", n>>])
        THEN /\ xdir' = [xdir EXCEPT ![n] = "extracted"]
             /\ files' = IF keep_zip THEN files ELSE FsRemove(files, n, "fin")
             /\ h' = IF keep_zip THEN h
                     ELSE [u \in TaskIds |->
                             IF h[u] = "fin" /\ NameOf(u) = n THEN "unlinked" ELSE h[u]]
             /\ tpc' = [tpc EXCEPT ![t] = "ok"]
             /\ res' = [res EXCEPT ![t] = Result(t, item[t], n)]
        ELSE /\ xdir' = [xdir EXCEPT ![n] = IF @ = "absent" THEN "empty" ELSE @]
             /\ tpc' = [tpc EXCEPT ![t] = "failed"]
             /\ UNCHANGED <<files, h, res>>
    /\ UNCHANGED <<dready, unzip, keep_zip, max_workers, dpc, run, tasks, results,
                   item, dattempt, off, expected, matched>>
    /\ PoolTracks
    /\ UNCHANGED outsideDl

\* ------------------------------------------------------------------------
\* for fut in as_completed(futures): the main thread takes a finished future
\* ------------------------------------------------------------------------
\* Faulty variant of OnFutureError: a job's exception is raised again.
MutOnFutureError(st) == IF st = "failed" THEN "raise" ELSE "append"

\* try: res = fut.result(); if res: results.append(res)
\* except Exception as e: self.logger.error(...)
OnFutureError(st) == IF st = "failed" THEN "log" ELSE "append"

\* Without(q, t): the sequence q without its member t.
Without(q, t) == SelectSeq(q, LAMBDA u : u # t)

\* The futures as_completed(futures) found finished when it was called: the
\* ones it still has to yield if it was called before (ac_first), else any
\* number of those that finished first.
FirstSets ==
    IF ac_called THEN {ac_first}
    ELSE { { done_order[i] : i \in 1..k } : k \in 0..Len(done_order) }

\* as_completed yields the finished futures of `first` first, taken from a
\* set, and then the other futures in the order they finish.
Yields(t, first) == t \in first \/ (first = {} /\ t = Head(done_order))

\* for fut in as_completed(futures): one turn of the loop, with the call of
\* as_completed before the first one.
Collect(t) ==
    /\ dpc = "pool" /\ Finished(t)
    /\ \E first \in FirstSets :
          /\ Yields(t, first)
          /\ ac_first' = first \ {t}
    /\ ac_called' = TRUE
    /\ done_order' = Without(done_order, t)
    /\ LET o == OnFutureError(tpc[t]) IN
        /\ results' = IF o = "append" THEN Append(results, res[t]) ELSE results
        /\ dpc' = IF o = "raise" THEN "raised" ELSE dpc
        /\ tpc' = [tpc EXCEPT ![t] = IF tpc[t] = "ok" THEN "collected" ELSE "dropped"]
    /\ UNCHANGED <<dready, unzip, keep_zip, max_workers, run, tasks,
                   item, dattempt, h, off, expected, matched, res, files, xdir>>
    /\ UNCHANGED outsideDl

\* Every future was taken: the pool is left and results are returned.
ReturnResults ==
    /\ dpc = "pool"
    /\ \A t \in TaskIds : tpc[t] \in {"collected", "dropped"}
    /\ dpc' = "done"
    /\ UNCHANGED <<dready, unzip, keep_zip, max_workers, run, tasks, results,
                   tpc, item, dattempt, h, off, expected, matched, res, files, xdir>>
    /\ PoolTracks
    /\ UNCHANGED outsideDl

\* download_items is called again with the same bucket, out_dir and flags.
Rerun ==
    /\ dpc = "done" /\ run = 1
    /\ run' = 2
    /\ dpc' = "build"
    /\ UNCHANGED <<dready, unzip, keep_zip, max_workers, tasks, results,
                   tpc, item, dattempt, h, off, expected, matched, res, files, xdir>>
    /\ PoolTracks
    /\ UNCHANGED outsideDl

NextDl ==
    \/ BuildTasks
    \/ \E t \in TaskIds : JobStart(t)
    \/ \E t \in TaskIds : JobStartSkip(t)
    \/ \E t \in TaskIds : SkipUnzip(t)
    \/ \E t \in TaskIds : GetRetryStatus(t)
    \/ \E t \in TaskIds : GetFails(t)
    \/ \E t \in TaskIds : GetOk(t)
    \/ \E t \in TaskIds : StreamWrite(t)
    \/ \E t \in TaskIds : StreamEnd(t)
    \/ \E t \in TaskIds : StreamRaises(t)
    \/ \E t \in TaskIds : SizeCheck(t)
    \/ \E t \in TaskIds : Replace1(t)
    \/ \E t \in TaskIds : Replace2(t)
    \/ \E t \in TaskIds : Unzip(t)
    \/ \E t \in TaskIds : Collect(t)
    \/ ReturnResults

\* ========================================================================
\* Retry delays: BaseDDSClient._sleep_for_retry and the delay lines of
\* DDSDownload._download_with_retries
\* ========================================================================
\* Delays before jitter are whole seconds; the clock and the slept delays
\* are counted in half seconds, so that a delay of d seconds times a jitter
\* factor in [0.5, 1.0] is between d and 2*d half seconds.

Min(a, b) == IF a <= b THEN a ELSE b

RECURSIVE Pow2(_)
Pow2(n) == IF n <= 0 THEN 1 ELSE 2 * Pow2(n - 1)

\* What resp.headers.get("Retry-After") gives: no header, an empty value,
\* seconds, or an HTTP date.
RetryAfterHeaders == {Missing, "", "0", "1", "3", "date"}

\* float(ra): {} when it raises ValueError.
FloatOf(ra) ==
    IF ra = "0" THEN {0} ELSE IF ra = "1" THEN {1} ELSE IF ra = "3" THEN {3} ELSE {}

\* Faulty variant of ExpBackoff: the ceiling is not applied.
MutExpBackoffNoCap(att, bf, mb) == bf * Pow2(att - 1)

\* min(max_backoff, backoff_factor * (2 ** (attempt - 1)))
ExpBackoff(att, bf, mb) == Min(mb, bf * Pow2(att - 1))

\* Faulty variant of DelayBeforeJitter: Retry-After is capped by max_backoff.
MutDelayCapsRetryAfter(present, code, ra, att, bf, mb) ==
    IF present /\ code = 429 /\ Truthy(ra) /\ FloatOf(ra) # {}
    THEN Min(mb, CHOOSE d \in FloatOf(ra) : TRUE)
    ELSE ExpBackoff(att, bf, mb)

\* _sleep_for_retry up to the jitter line: Retry-After of a 429 when it
\* parses, else the exponential delay.
DelayBeforeJitter(present, code, ra, att, bf, mb) ==
    IF present /\ code = 429 /\ Truthy(ra) /\ FloatOf(ra) # {}
    THEN CHOOSE d \in FloatOf(ra) : TRUE
    ELSE ExpBackoff(att, bf, mb)

\* delay *= 0.5 + 0.5 * random.random(), in half seconds: the least factor,
\* a factor in the middle and the limit of the greatest ones.
Jittered(d) == {d, d + (d \div 2), 2 * d}

\* The callers of the delay computation and their defaults.
BackoffFactors == 0..MaxBackoffFactor

MaxBackoffs == (0..MaxBackoffArg) \cup {DlMaxBackoff, DefaultMaxBackoff}

NoSleep == [attempt |-> 0, present |-> FALSE, code |-> 0, ra |-> Missing,
            exp |-> FALSE, pre |-> 0, slept |-> 0]

\* An exponential delay: the attempt it followed and its value before jitter.
Exp(att, pre) == [attempt |-> att, pre |-> pre]

NoExp == Exp(0, 0)

\* One retry sleep of the caller: which attempt it follows, the response it
\* follows, whether the exponential formula gave the delay, the delay before
\* jitter and the delay slept.
Sleep(att, present, code, ra, pre, slept) ==
    [attempt |-> att, present |-> present, code |-> code, ra |-> ra,
     exp |-> ~(present /\ code = 429 /\ Truthy(ra) /\ FloatOf(ra) # {}),
     pre |-> pre, slept |-> slept]

\* _request_with_retries sleeps after a 429/5xx (or _sleep_for_retry is
\* called with resp = None) and goes to the next attempt.
ExecutorSleeps ==
    /\ bk_caller = "_request_with_retries"
    /\ bk_attempt <= MaxAttempt
    /\ \E present \in BOOLEAN, code \in {429, 500, 503}, ra \in RetryAfterHeaders :
        /\ (~present => (code = 503 /\ ra = Missing))
        /\ LET pre == DelayBeforeJitter(present, code, ra, bk_attempt,
                                        backoff_factor, max_backoff)
           IN  \E s \in Jittered(pre) :
                  bk_cur' = Sleep(bk_attempt, present, code, ra, pre, s)
    /\ bk_prevExp' = IF bk_cur.exp /\ bk_cur.attempt > 0
                     THEN Exp(bk_cur.attempt, bk_cur.pre) ELSE bk_prevExp
    /\ bk_attempt' = bk_attempt + 1
    /\ UNCHANGED <<bk_caller, backoff_factor, max_backoff>>
    /\ UNCHANGED outsideBackoff

\* _download_with_retries sleeps after a 429/5xx or in its except handler:
\* the exponential delay of the attempt, jittered.
DownloadSleeps ==
    /\ bk_caller = "_download_with_retries"
    /\ bk_attempt <= MaxAttempt
    /\ LET pre == ExpBackoff(bk_attempt, backoff_factor, max_backoff)
       IN  \E s \in Jittered(pre) :
              bk_cur' = [attempt |-> bk_attempt, present |-> TRUE, code |-> 503,
                         ra |-> Missing, exp |-> TRUE, pre |-> pre, slept |-> s]
    /\ bk_prevExp' = IF bk_cur.attempt > 0
                     THEN Exp(bk_cur.attempt, bk_cur.pre) ELSE bk_prevExp
    /\ bk_attempt' = bk_attempt + 1
    /\ UNCHANGED <<bk_caller, backoff_factor, max_backoff>>
    /\ UNCHANGED outsideBackoff

NextBackoff == ExecutorSleeps \/ DownloadSleeps

\* ========================================================================
\* The throttle of get_items / get_items_from_results, on a clock
\* ========================================================================
\* min_interval = 1.0 / rate_limit_per_sec, in half seconds; 0 when
\* rate_limit_per_sec <= 0 (rates of 0, 2, 1 and 0.5 requests per second).
MinIntervals == {0, 1, 2, 4}

NoStart == 0 - 1

\* if min_interval > 0: wait = (last_ts + min_interval) - now;
\* if wait > 0: time.sleep(wait). The sleep lasts wait or longer.
ThrottleWait ==
    /\ th_pc = "top" /\ th_idx <= th_n
    /\ LET wait == (last_ts + min_interval) - now IN
        IF min_interval > 0 /\ wait > 0
        THEN \E over \in 0..1 : now' = now + wait + over
        ELSE now' = now
    /\ now' <= MaxClock
    /\ th_attempt' = 1
    /\ th_pc' = "request"
    /\ UNCHANGED <<min_interval, th_n, th_idx, last_ts, th_ra, th_code,
                   lastStart, prevStart>>
    /\ UNCHANGED outsideThrottle

\* resp = self.aaa.prepare_request(...): a catalog request starts.
RequestStarts ==
    /\ th_pc = "request"
    /\ prevStart' = lastStart
    /\ lastStart' = now
    /\ th_pc' = "inflight"
    /\ UNCHANGED <<min_interval, th_n, th_idx, last_ts, now, th_attempt, th_ra,
                   th_code>>
    /\ UNCHANGED outsideThrottle

\* The response arrives after some time. A 429/5xx with attempts left leads
\* to _sleep_for_retry, every other outcome to the finally block.
ResponseArrives ==
    /\ th_pc = "inflight"
    /\ \E took \in 0..1 : now' = now + took
    /\ now' <= MaxClock
    /\ \E code \in {200, 404, 429, 503}, ra \in RetryAfterHeaders :
        /\ (code # 429 => ra = Missing)
        /\ th_code' = code
        /\ th_ra' = ra
        /\ th_pc' = IF ExecDecision(code, th_attempt, DefaultMaxRetries) = "retry"
                    THEN "sleep" ELSE "finally"
    /\ UNCHANGED <<min_interval, th_n, th_idx, last_ts, th_attempt, lastStart,
                   prevStart>>
    /\ UNCHANGED outsideThrottle

\* self._sleep_for_retry(resp, attempt, backoff_factor, max_backoff); continue
RetrySleeps ==
    /\ th_pc = "sleep"
    /\ \E s \in Jittered(DelayBeforeJitter(TRUE, th_code, th_ra, th_attempt,
                                           DefaultBackoffFactor, DefaultMaxBackoff)) :
          now' = now + s
    /\ now' <= MaxClock
    /\ th_attempt' = th_attempt + 1
    /\ th_pc' = "request"
    /\ UNCHANGED <<min_interval, th_n, th_idx, last_ts, th_ra, th_code,
                   lastStart, prevStart>>
    /\ UNCHANGED outsideThrottle

\* finally: ... last_ts = time.perf_counter(); the loop goes to the next item.
ThrottleFinally ==
    /\ th_pc = "finally"
    /\ last_ts' = now
    /\ th_idx' = th_idx + 1
    /\ th_pc' = IF th_idx = th_n THEN "done" ELSE "top"
    /\ UNCHANGED <<min_interval, th_n, now, th_attempt, th_ra, th_code,
                   lastStart, prevStart>>
    /\ UNCHANGED outsideThrottle

NextThrottle ==
    \/ ThrottleWait
    \/ RequestStarts
    \/ ResponseArrives
    \/ RetrySleeps
    \/ ThrottleFinally

\* ========================================================================
\* OptionalRCMDB: the optional SQLite store
\* ========================================================================
\* _EXPECTED_QUERY_COLS and _EXPECTED_DL_COLS
ExpectedQueryCols ==
    {"id", "constellation", "geometry_wkt", "start_date", "end_date",
     "parameters", "created_at"}

ExpectedDlCols ==
    {"product_id", "query_id", "constellation", "sensor_mode", "product_type",
     "processing_level", "status", "acqusition_time", "publication_time",
     "latency", "coordinates", "latitude", "longitude", "name", "quicklook",
     "file_path", "file_size_mb", "checksum", "created_at", "updated_at"}

\* The columns of the downloads table as the store's schema names them.
SchemaDlCols ==
    (ExpectedDlCols \ {"acqusition_time"}) \cup {"acquisition_time"}

\* What db_path can be: None or "", the path of no file, a file that is no
\* SQLite database, a database file.
DbPaths == {"none", "nofile", "notsqlite", "file"}

\* The columns PRAGMA table_info reports for the two tables of a database
\* file; {} for a table that does not exist.
QueryTables ==
    { {}, ExpectedQueryCols, ExpectedQueryCols \cup {"extra"},
      ExpectedQueryCols \ {"parameters"} }

DlTables ==
    { {}, ExpectedDlCols, ExpectedDlCols \cup {"extra"},
      ExpectedDlCols \ {"checksum"}, SchemaDlCols, SchemaDlCols \cup {"extra"},
      ExpectedDlCols \cup SchemaDlCols }

\* _subset_present(conn, table, need)
SubsetPresent(cols, need) == need \subseteq cols

\* OptionalRCMDB.__init__: the value of self.enabled it leaves.
Gate(path, qc, dc) ==
    /\ path \notin {"none", "nofile"}
    /\ path # "notsqlite"
    /\ SubsetPresent(qc, ExpectedQueryCols)
    /\ SubsetPresent(dc, ExpectedDlCols)

\* The downloads rows are [product_id, status], in insertion order.
Row(id, st) == [product_id |-> id, status |-> st]

RowsOf(rs, id) == { i \in 1..Len(rs) : rs[i].product_id = id }

\* Faulty variant of Upsert: a plain INSERT.
MutUpsertInserts(rs, id, st) == Append(rs, Row(id, st))

\* INSERT ... ON CONFLICT(product_id) DO UPDATE SET status = ...
Upsert(rs, id, st) ==
    IF RowsOf(rs, id) # {}
    THEN [i \in 1..Len(rs) |-> IF rs[i].product_id = id THEN Row(id, st) ELSE rs[i]]
    ELSE Append(rs, Row(id, st))

\* The status a mark method writes.
StatusOf(op) ==
    IF op = "mark_in_progress" THEN "in_progress"
    ELSE IF op = "mark_success" THEN "completed"
    ELSE "failed"

MarkOps == {"mark_in_progress", "mark_success", "mark_failed"}

ProductIds == {"p1", "p2", "p3", "unknown"}

\* Faulty variant of OnWriteError: the exception leaves the method.
MutOnWriteErrorRaises(ok) == IF ok THEN "written" ELSE "raised"

\* try: ... except Exception as e: (debug log); the method returns.
OnWriteError(ok) == IF ok THEN "written" ELSE "absorbed"

\* Faulty variant of Outcome: the write is made whatever self.enabled is.
MutOutcomeIgnoresGate(en, ok) == OnWriteError(ok)

\* `if not self.enabled: return`, then the guarded write.
Outcome(en, ok) == IF ~en THEN "disabled" ELSE OnWriteError(ok)

NoCall == [op |-> "none", id |-> "", outcome |-> "none"]

\* One call of mark_in_progress / mark_success / mark_failed for product id:
\* nothing when the handle is disabled; else the upsert and commit, which go
\* through (ok) or raise (also when mark_success cannot read the final
\* file). nxt is where the caller goes on when the method returns.
Mark(op, id, ok, nxt) ==
    LET out == Outcome(enabled, ok) IN
    /\ rows' = IF out = "written" THEN Upsert(rows, id, StatusOf(op)) ELSE rows
    /\ db_last' = [op |-> op, id |-> id, outcome |-> out]
    /\ db_log' = IF out = "written" THEN Append(db_log, [op |-> op, id |-> id])
                 ELSE db_log
    /\ lastCall' = [lastCall EXCEPT ![id] = op]
    /\ lastStored' = IF out = "written"
                     THEN [lastStored EXCEPT ![id] = StatusOf(op)] ELSE lastStored
    /\ db_pc' = IF out = "raised" THEN "raised" ELSE nxt
    /\ write_failed' = (write_failed \/ out \in {"absorbed", "raised"})
    /\ UNCHANGED <<q_rows, query_id>>

\* record_query(payload): None when disabled or when the INSERT raises, else
\* the id of the new queries row. The caller goes on at nxt.
RecordQuery(ok, nxt) ==
    LET out == Outcome(enabled, ok) IN
    /\ q_rows' = IF out = "written" THEN q_rows + 1 ELSE q_rows
    /\ query_id' = IF out = "written" THEN {q_rows + 1} ELSE {}
    /\ db_last' = [op |-> "record_query", id |-> "", outcome |-> out]
    /\ db_pc' = IF out = "raised" THEN "raised" ELSE nxt
    /\ write_failed' = (write_failed \/ out \in {"absorbed", "raised"})
    /\ UNCHANGED <<rows, db_log, lastCall, lastStored>>

\* OptionalRCMDB(db_path): the gate decides self.enabled.
OpenStore ==
    /\ db_pc = "open"
    /\ enabled' = Gate(db_path, q_cols, dl_cols)
    /\ db_pc' = IF w_kind = "direct" THEN "calls"
                ELSE IF w_kind = "dds_with_db" THEN "query" ELSE "premark"
    /\ UNCHANGED <<db_path, q_cols, dl_cols, rows, q_rows, query_id, db_last,
                   db_log, lastCall, lastStored, n_calls, write_failed>>
    /\ UNCHANGED wrapVars
    /\ UNCHANGED outsideDb

\* A caller of the handle calls one of the mark methods.
CallMark ==
    /\ db_pc = "calls" /\ n_calls < MaxCalls
    /\ \E op \in MarkOps, id \in {"p1", "p2"}, ok \in BOOLEAN :
          Mark(op, id, ok, "calls")
    /\ n_calls' = n_calls + 1
    /\ UNCHANGED <<db_path, q_cols, dl_cols, enabled>>
    /\ UNCHANGED wrapVars
    /\ UNCHANGED outsideDb

\* A caller of the handle calls record_query.
CallRecordQuery ==
    /\ db_pc = "calls" /\ n_calls < MaxCalls
    /\ \E ok \in BOOLEAN : RecordQuery(ok, "calls")
    /\ n_calls' = n_calls + 1
    /\ UNCHANGED <<db_path, q_cols, dl_cols, enabled>>
    /\ UNCHANGED wrapVars
    /\ UNCHANGED outsideDb

NextStore == OpenStore \/ CallMark \/ CallRecordQuery


\* ========================================================================
\* RCMClientWithDB: the two wrappers around the plain client
\* ========================================================================
\* Ready items given to a wrapper: those with a URL, and one with an id but
\* no download_url.
WrapItems == ItemsWithUrl \cup {Item("p3", Missing, Missing, NoUrl)}

\* `if url:`
HasUrl(it) == it.download_url \notin {NoUrl, EmptyUrl}

\* aid = it.get("archiveId") or it.get("datasetId") or it.get("serviceUuid")
WrapAid(it) == FirstTruthy(<<it.archiveId, it.datasetId, it.serviceUuid>>)

ReadyBuckets == UNION { [1..k -> WrapItems] : k \in 0..MaxReady }

KindsOf(rdy) == [i \in 1..Len(rdy) |-> IF HasUrl(rdy[i]) THEN "url" ELSE "none"]

\* What super().download_items can return for a ready bucket: one result
\* for each task that succeeded, in the order the tasks completed.
Orders(n) ==
    { s \in UNION { [1..k -> 1..n] : k \in 0..n } :
         \A a, b \in 1..Len(s) : a # b => s[a] # s[b] }

PlainResults(rdy) ==
    LET ts == TasksOf(KindsOf(rdy)) IN
    { [k \in 1..Len(o) |-> Result(o[k], rdy[ts[o[k]]], None)] : o \in Orders(Len(ts)) }

\* Faulty variant of PremarkDone: the downloads start after the first item.
MutPremarkDone(i, n) == i > 1

\* The end of the pre-marking loop `for it in ready:`.
PremarkDone(i, n) == i > n

\* record_query_and_get_items: record_query, then super().get_items, whose
\* buckets (here the ready bucket) are returned with the query id.
RecordQueryAndGetItems ==
    /\ db_pc = "query"
    /\ \E ok \in BOOLEAN : RecordQuery(ok, "premark")
    /\ w_buckets' = w_ready
    /\ UNCHANGED <<db_path, q_cols, dl_cols, enabled, n_calls>>
    /\ UNCHANGED <<w_kind, w_ready, w_idx, w_j, w_results, w_plain, w_ret, succeeded>>
    /\ UNCHANGED outsideDb

\* One turn of the pre-marking loop of download_items (rcm_client) and of
\* download_items_with_db (dds_with_db).
Premark ==
    /\ db_pc = "premark" /\ ~PremarkDone(w_idx, Len(w_ready))
    /\ w_idx <= Len(w_ready)
    /\ LET it == w_ready[w_idx]  aid == WrapAid(it) IN
         IF ~(Truthy(aid) /\ HasUrl(it))
         THEN UNCHANGED <<rows, q_rows, query_id, db_last, db_log, lastCall,
                          lastStored, write_failed, db_pc>>
         ELSE \E ok \in BOOLEAN : Mark("mark_in_progress", aid, ok, "premark")
    /\ w_idx' = w_idx + 1
    /\ UNCHANGED <<db_path, q_cols, dl_cols, enabled, n_calls>>
    /\ UNCHANGED <<w_kind, w_ready, w_j, w_results, w_plain, w_ret, succeeded, w_buckets>>
    /\ UNCHANGED outsideDb

\* results = super().download_items(item_info, out_dir, ...)
SuperDownloadItems ==
    /\ db_pc = "premark" /\ PremarkDone(w_idx, Len(w_ready))
    /\ \E rs \in PlainResults(w_ready) :
          /\ w_plain' = rs
          /\ w_results' = rs
    /\ db_pc' = "success"
    /\ w_j' = 1
    /\ succeeded' = {}
    /\ UNCHANGED <<db_path, q_cols, dl_cols, enabled, rows, q_rows, query_id,
                   db_last, db_log, lastCall, lastStored, n_calls, write_failed>>
    /\ UNCHANGED <<w_kind, w_ready, w_idx, w_ret, w_buckets>>
    /\ UNCHANGED outsideDb

\* One turn of `for r in results:`; rcm_client also collects the ids.
MarkSuccesses ==
    /\ db_pc = "success" /\ w_j <= Len(w_results)
    /\ LET aid == w_results[w_j].archiveId IN
         /\ succeeded' = IF w_kind = "rcm_client" THEN succeeded \cup {aid}
                         ELSE succeeded
         /\ \E ok \in BOOLEAN : Mark("mark_success", aid, ok, "success")
    /\ w_j' = w_j + 1
    /\ UNCHANGED <<db_path, q_cols, dl_cols, enabled, n_calls>>
    /\ UNCHANGED <<w_kind, w_ready, w_idx, w_results, w_plain, w_ret, w_buckets>>
    /\ UNCHANGED outsideDb

\* rcm_client goes on to its best-effort failure loop.
SuccessesMarked ==
    /\ db_pc = "success" /\ w_j > Len(w_results)
    /\ w_kind = "rcm_client"
    /\ db_pc' = "failure"
    /\ w_j' = 1
    /\ UNCHANGED <<db_path, q_cols, dl_cols, enabled, rows, q_rows, query_id,
                   db_last, db_log, lastCall, lastStored, n_calls, write_failed>>
    /\ UNCHANGED <<w_kind, w_ready, w_idx, w_results, w_plain, w_ret, succeeded, w_buckets>>
    /\ UNCHANGED outsideDb

\* Faulty variant of SkipsFailedMark: only items without id are skipped.
MutSkipsFailedMark(aid, succ) == ~Truthy(aid)

\* `if not aid or aid in succeeded: continue`
SkipsFailedMark(aid, succ) == ~Truthy(aid) \/ aid \in succ

\* One turn of the failure loop of rcm_client: every ready item with an id
\* that is not among the succeeded ones.
MarkFailures ==
    /\ db_pc = "failure" /\ w_j <= Len(w_ready)
    /\ LET aid == WrapAid(w_ready[w_j]) IN
         IF SkipsFailedMark(aid, succeeded)
         THEN UNCHANGED <<rows, q_rows, query_id, db_last, db_log, lastCall,
                          lastStored, write_failed, db_pc>>
         ELSE \E ok \in BOOLEAN : Mark("mark_failed", aid, ok, "failure")
    /\ w_j' = w_j + 1
    /\ UNCHANGED <<db_path, q_cols, dl_cols, enabled, n_calls>>
    /\ UNCHANGED <<w_kind, w_ready, w_idx, w_results, w_plain, w_ret, succeeded, w_buckets>>
    /\ UNCHANGED outsideDb

\* return results
WrapperReturns ==
    /\ \/ db_pc = "failure" /\ w_j > Len(w_ready)
       \/ db_pc = "success" /\ w_j > Len(w_results) /\ w_kind = "dds_with_db"
    /\ w_ret' = w_results
    /\ db_pc' = "done"
    /\ UNCHANGED <<db_path, q_cols, dl_cols, enabled, rows, q_rows, query_id,
                   db_last, db_log, lastCall, lastStored, n_calls, write_failed>>
    /\ UNCHANGED <<w_kind, w_ready, w_idx, w_j, w_results, w_plain, succeeded, w_buckets>>
    /\ UNCHANGED outsideDb

NextWrapped ==
    \/ OpenStore \/ RecordQueryAndGetItems \/ Premark \/ SuperDownloadItems
    \/ MarkSuccesses \/ SuccessesMarked \/ MarkFailures \/ WrapperReturns


\* ========================================================================
\* The downloads table, column by column (rcm_db.py), and the values the
\* wrappers pass to it (rcm_client.py, dds_with_db.py)
\* ========================================================================
MaxMarks == 3

\* SQL NULL, and Python's None where it is bound to a column; a value v of a
\* column that may be NULL is <<v>>.
Null == <<>>

\* The columns of the INSERT statements. "product" stands for constellation,
\* sensor_mode, product_type, processing_level, coordinates, latitude,
\* longitude, name and quicklook, which the three statements treat alike.
Columns == {"product_id", "query_id", "product", "status", "acqusition_time",
            "publication_time", "latency", "file_path", "file_size_mb",
            "checksum", "created_at", "updated_at"}

ColIds == {"p1", "p2"}

NoRow == [c \in Columns |-> IF c \in {"product_id", "status"} THEN "absent"
                            ELSE IF c \in {"created_at", "updated_at"} THEN 0
                            ELSE Null]

\* A value of meta["acquisition_time"] or of an item's date field: None, a
\* datetime, or a string that is or is not an ISO date; minute is the
\* instant it names.
NoneTime == [type |-> "none", minute |-> 0, iso |-> FALSE]
DateTime(mi) == [type |-> "datetime", minute |-> mi, iso |-> TRUE]
Str(mi) == [type |-> "str", minute |-> mi, iso |-> TRUE]
BadStr == [type |-> "str", minute |-> 0, iso |-> FALSE]

\* to_iso: None stays None, a string is kept, a datetime becomes its ISO text.
to_iso(x) ==
    IF x.type = "none" THEN Null
    ELSE IF x.type = "str" THEN <<x>>
    ELSE <<Str(x.minute)>>

\* _dt of the wrappers: a datetime is kept, an ISO string is parsed, anything
\* else is None.
Dt(x) ==
    IF x.type = "datetime" THEN x
    ELSE IF x.type = "str" /\ x.iso THEN DateTime(x.minute)
    ELSE NoneTime

\* latency of mark_success: minutes from acquisition to publication, when
\* both are datetimes.
Latency(acq, pub) ==
    IF acq.type = "datetime" /\ pub.type = "datetime"
    THEN <<pub.minute - acq.minute>>
    ELSE Null

\* meta, as the mark methods read it.
Meta(prod, acq, pub) ==
    [product |-> prod, acquisition_time |-> acq, publication_time |-> pub]

AcqMinute == 10
PubMinute == 40

MetaArgs == {Meta(<<"m1">>, DateTime(AcqMinute), DateTime(PubMinute)),
             Meta(<<"m2">>, Str(AcqMinute), DateTime(PubMinute)),
             Meta(Null, NoneTime, NoneTime)}

\* The row of the VALUES clause of each statement. file is the content of
\* final_path on disk, or Null if there is no such file (only mark_success
\* looks); at is the reading of datetime('now').
ValuesRow(op, id, qid, meta, path, file, at) ==
    [product_id |-> id,
     query_id |-> qid,
     product |-> meta.product,
     status |-> StatusOf(op),
     acqusition_time |-> to_iso(meta.acquisition_time),
     publication_time |-> to_iso(meta.publication_time),
     latency |-> IF op = "mark_success"
                 THEN Latency(meta.acquisition_time, meta.publication_time)
                 ELSE Null,
     file_path |-> <<path>>,
     file_size_mb |-> IF op = "mark_success" /\ file # Null
                      THEN <<SizeOf(file[1])>> ELSE Null,
     checksum |-> IF op = "mark_success" /\ file # Null THEN file ELSE Null,
     created_at |-> at,
     updated_at |-> at]

\* Faulty variant of ConflictColumns: the row is replaced, but for its
\* creation time.
MutConflictColumns(op) == Columns \ {"product_id", "created_at"}

\* The columns of ON CONFLICT(product_id) DO UPDATE SET of each statement.
ConflictColumns(op) ==
    IF op = "mark_success"
    THEN {"status", "file_path", "file_size_mb", "checksum", "publication_time",
          "acqusition_time", "latency", "updated_at"}
    ELSE {"status", "file_path", "updated_at"}

\* INSERT ... ON CONFLICT(product_id) DO UPDATE SET ... on the table.
Execute(tbl, op, new) ==
    LET old == tbl[new.product_id] IN
    [tbl EXCEPT ![new.product_id] =
        IF old.status = "absent" THEN new
        ELSE [c \in Columns |-> IF c \in ConflictColumns(op) THEN new[c]
                                ELSE old[c]]]

NoMark == [op |-> "none", existing |-> FALSE, new |-> NoRow]

\* One mark method runs its statement on an enabled store and commits.
ColMark(op, id, qid, meta, path, file) ==
    /\ tick < MaxMarks
    /\ LET new == ValuesRow(op, id, qid, meta, path, file, tick + 1) IN
       /\ table' = Execute(table, op, new)
       /\ last_mark' = [op |-> op, existing |-> table[id].status # "absent",
                        new |-> new]
    /\ tick' = tick + 1

\* A ready item as the wrappers read it, and an entry of meta_by_archive
\* ({} is the entry with nothing in it).
ColItem(aid, prod, acq, upd) ==
    [archiveId |-> aid, title |-> prod, acquisitionEndDate |-> acq,
     last_update |-> upd]

ItemDates(mi) == {NoneTime, Str(mi), BadStr}

ColItems == { ColItem("p1", <<"m1">>, a, u) :
                 a \in ItemDates(AcqMinute), u \in ItemDates(PubMinute) }

EmptyDict == ColItem("", Null, NoneTime, NoneTime)

Extras == {EmptyDict,
           ColItem("", <<"m2">>, Str(AcqMinute), Str(PubMinute))}

\* `a or b` on a field that is None or a value.
OrElse(a, none, b) == IF a # none THEN a ELSE b

\* _build_meta(item, extra) of dds_with_db.
BuildMeta(it, extra) ==
    Meta(OrElse(extra.title, Null, it.title),
         Dt(OrElse(extra.acquisitionEndDate, NoneTime, it.acquisitionEndDate)),
         Dt(OrElse(extra.last_update, NoneTime, it.last_update)))

\* meta of the pre-marking loop of each wrapper.
PremarkMeta(kind, it, extra) ==
    IF kind = "rcm_client"
    THEN Meta(it.title, Dt(it.acquisitionEndDate), Dt(it.last_update))
    ELSE BuildMeta(it, extra)

\* meta of the success loop of each wrapper.
SuccessMeta(kind, extra) ==
    IF kind = "rcm_client"
    THEN Meta(Null, NoneTime, NoneTime)
    ELSE BuildMeta(EmptyDict, extra)

\* query_id of the wrapper's writes: None in rcm_client, the argument in
\* download_items_with_db.
WrapQueryId(kind, qid) == IF kind = "rcm_client" THEN Null ELSE qid

NoWrap == [pc |-> "idle", kind |-> "none", item |-> EmptyDict,
           extra |-> EmptyDict, query_id |-> Null, marked |-> NoRow]

\* A mark method is called directly.
DirectMark ==
    /\ lw.pc = "idle"
    /\ \E op \in MarkOps, id \in ColIds, qid \in {Null, <<1>>}, meta \in MetaArgs,
          path \in {"a.zip", "b.zip"}, file \in {Null, <<"zip">>} :
          ColMark(op, id, qid, meta, path, file)
    /\ UNCHANGED lw
    /\ UNCHANGED outsideColumns

\* The pre-marking loop of a wrapper marks a ready item that has an id and a
\* download_url.
WrapperPremarks ==
    /\ lw.pc = "idle" /\ tick + 2 <= MaxMarks
    /\ \E kind \in {"rcm_client", "dds_with_db"}, it \in ColItems,
          extra \in Extras, qid \in {Null, <<1>>} :
          /\ kind = "rcm_client" => (extra = EmptyDict /\ qid = Null)
          /\ ColMark("mark_in_progress", it.archiveId, WrapQueryId(kind, qid),
                     PremarkMeta(kind, it, extra), "a.zip", Null)
          /\ lw' = [pc |-> "downloading", kind |-> kind, item |-> it,
                    extra |-> extra, query_id |-> qid,
                    marked |-> table'[it.archiveId]]
    /\ UNCHANGED outsideColumns

\* super().download_items returned a result for the item: the success loop
\* marks it, and the wrapper returns.
WrapperMarksSuccess ==
    /\ lw.pc = "downloading"
    /\ ColMark("mark_success", lw.item.archiveId,
               WrapQueryId(lw.kind, lw.query_id),
               SuccessMeta(lw.kind, lw.extra), "a.zip", <<"zip">>)
    /\ lw' = [lw EXCEPT !.pc = "returned"]
    /\ UNCHANGED outsideColumns

NextColumns == DirectMark \/ WrapperPremarks \/ WrapperMarksSuccess


\* ========================================================================
\* The two retry loops, attempt by attempt (base.py, downloads.py)
\* ========================================================================
\* What one attempt meets: a response with a status code, a transport
\* failure (the GET raises), or, in the downloader, a 2xx response whose
\* body fails while it is streamed, size-checked or renamed.
Met(kind, code) == [kind |-> kind, code |-> code]

StatusCodes == {200, 202, 401, 404, 429, 503}

ExecutorMeets == { Met("status", c) : c \in StatusCodes } \cup {Met("transport", 0)}

DownloadMeets == ExecutorMeets \cup {Met("integrity", 200)}

\* requests' raise_for_status raises on 4xx and 5xx.
RaisesForStatus(code) == 400 <= code /\ code < 600

\* One attempt of _download_with_retries: "retry" after a 429/5xx with
\* attempts left (sleep, continue); "return" when nothing raises; else the
\* except handler, which raises after the last attempt and sleeps and goes
\* on to the next one otherwise.
DownloadDecision(o, att, maxr) ==
    IF o.kind = "status" /\ IsRetryable(o.code) /\ att < maxr THEN "retry"
    ELSE IF o.kind = "status" /\ ~RaisesForStatus(o.code) THEN "return"
    ELSE IF att >= maxr THEN "raise"
    ELSE "retry"

\* One attempt of either loop. Nothing in _request_with_retries catches
\* what the GET raises.
Decision(caller, o, att, maxr) ==
    IF caller = "_download_with_retries" THEN DownloadDecision(o, att, maxr)
    ELSE IF o.kind = "transport" THEN "raise"
    ELSE ExecDecision(o.code, att, maxr)

MeetsOf(caller) ==
    IF caller = "_download_with_retries" THEN DownloadMeets ELSE ExecutorMeets

\* The attempt ends the call with a response or the finished file.
AttemptReturns ==
    /\ rt_pc = "attempt"
    /\ \E o \in MeetsOf(rt_caller) :
          /\ Decision(rt_caller, o, rt_attempt, rt_max) = "return"
          /\ rt_seen' = Append(rt_seen, o)
    /\ rt_pc' = "returned"
    /\ UNCHANGED <<rt_caller, rt_max, rt_attempt, rt_sleeps>>
    /\ UNCHANGED outsideRetry

\* The attempt is followed by a backoff sleep and another attempt.
AttemptRetries ==
    /\ rt_pc = "attempt"
    /\ \E o \in MeetsOf(rt_caller) :
          /\ Decision(rt_caller, o, rt_attempt, rt_max) = "retry"
          /\ rt_seen' = Append(rt_seen, o)
    /\ rt_sleeps' = rt_sleeps + 1
    /\ rt_attempt' = rt_attempt + 1
    /\ UNCHANGED <<rt_caller, rt_max, rt_pc>>
    /\ UNCHANGED outsideRetry

\* The attempt ends the call with an exception.
AttemptRaises ==
    /\ rt_pc = "attempt"
    /\ \E o \in MeetsOf(rt_caller) :
          /\ Decision(rt_caller, o, rt_attempt, rt_max) = "raise"
          /\ rt_seen' = Append(rt_seen, o)
    /\ rt_pc' = "raised"
    /\ UNCHANGED <<rt_caller, rt_max, rt_attempt, rt_sleeps>>
    /\ UNCHANGED outsideRetry

NextRetry == AttemptReturns \/ AttemptRetries \/ AttemptRaises


\* ------------------------------------------------------------------------
\* Initial states
\* ------------------------------------------------------------------------
InitPoll ==
    /\ \/ /\ entry \in {"get_items", "get_items_from_results"}
          /\ n_total \in 0..MaxItems
          /\ max_retries = DefaultMaxRetries
          /\ pc = "loop"
       \/ /\ entry = "_request_with_retries"
          /\ n_total = 0
          /\ max_retries \in (0..MaxRetriesArg) \cup {DefaultMaxRetries}
          /\ pc = "request"
    /\ idx = 1
    /\ e = NoElem
    /\ ready = <<>>
    /\ queued = <<>>
    /\ unknown = <<>>
    /\ n_done = 0
    /\ log = <<>>
    /\ attempt = 1
    /\ resp = NoResp
    /\ ret = NoResp
    /\ nGets = 0
    /\ priorCodes = {}
    /\ last = NoLast
    /\ fetched = <<>>
    \* download_items is not running
    /\ dready = <<>> /\ unzip = FALSE /\ keep_zip = TRUE /\ max_workers = 1
    /\ dpc = "idle" /\ run = 1
    /\ tasks = <<>> /\ results = <<>>
    /\ tpc = <<>> /\ item = <<>> /\ dattempt = <<>> /\ h = <<>> /\ off = <<>>
    /\ expected = <<>> /\ matched = <<>> /\ res = <<>>
    /\ files = EmptyFs /\ xdir = [n \in Names |-> "absent"]
    /\ done_order = <<>> /\ ac_called = FALSE /\ ac_first = {}
    \* no retry sleep is followed
    /\ bk_caller = "none" /\ backoff_factor = DefaultBackoffFactor
    /\ max_backoff = DefaultMaxBackoff /\ bk_attempt = 1
    /\ bk_cur = NoSleep /\ bk_prevExp = NoExp
    \* no poll is followed on the clock
    /\ min_interval = 0 /\ last_ts = 0 /\ now = 0 /\ th_n = 0 /\ th_idx = 1
    /\ th_pc = "idle" /\ th_attempt = 1 /\ th_code = 0 /\ th_ra = Missing
    /\ lastStart = NoStart /\ prevStart = NoStart
    \* no store is open and no wrapper is running
    /\ db_path = "none" /\ q_cols = {} /\ dl_cols = {} /\ enabled = FALSE
    /\ rows = <<>> /\ q_rows = 0 /\ query_id = {}
    /\ db_last = NoCall /\ db_log = <<>>
    /\ lastCall = [id \in ProductIds |-> "none"]
    /\ lastStored = [id \in ProductIds |-> "none"]
    /\ n_calls = 0 /\ write_failed = FALSE /\ db_pc = "idle"
    /\ w_kind = "none" /\ w_ready = <<>> /\ w_idx = 1 /\ w_j = 1
    /\ w_results = <<>> /\ w_plain = <<>> /\ w_ret = <<>>
    /\ succeeded = {} /\ w_buckets = <<>>
    \* the downloads table is not followed column by column
    /\ table = [id \in ColIds |-> NoRow] /\ tick = 0
    /\ last_mark = NoMark /\ lw = NoWrap
    \* no retry loop is followed attempt by attempt
    /\ rt_caller = "none" /\ rt_max = 1 /\ rt_attempt = 1
    /\ rt_seen = <<>> /\ rt_sleeps = 0 /\ rt_pc = "idle"

InitDl ==
    /\ dready \in UNION { [1..k -> ReadyKinds] : k \in 0..MaxReady }
    /\ unzip \in BOOLEAN
    /\ keep_zip \in (IF unzip THEN BOOLEAN ELSE {TRUE})
    /\ max_workers \in {1, 2}
    /\ dpc = "build" /\ run = 1
    /\ tasks = <<>> /\ results = <<>>
    /\ tpc = <<>> /\ item = <<>> /\ dattempt = <<>> /\ h = <<>> /\ off = <<>>
    /\ expected = <<>> /\ matched = <<>> /\ res = <<>>
    /\ files = EmptyFs /\ xdir = [n \in Names |-> "absent"]
    /\ done_order = <<>> /\ ac_called = FALSE /\ ac_first = {}
    \* the poller is not running
    /\ entry = "none" /\ n_total = 0 /\ idx = 1 /\ e = NoElem
    /\ ready = <<>> /\ queued = <<>> /\ unknown = <<>>
    /\ n_done = 0 /\ log = <<>> /\ pc = "idle"
    /\ attempt = 1 /\ max_retries = DefaultMaxRetries
    /\ resp = NoResp /\ ret = NoResp /\ nGets = 0 /\ priorCodes = {}
    /\ last = NoLast /\ fetched = <<>>
    \* no retry sleep is followed
    /\ bk_caller = "none" /\ backoff_factor = DefaultBackoffFactor
    /\ max_backoff = DefaultMaxBackoff /\ bk_attempt = 1
    /\ bk_cur = NoSleep /\ bk_prevExp = NoExp
    \* no poll is followed on the clock
    /\ min_interval = 0 /\ last_ts = 0 /\ now = 0 /\ th_n = 0 /\ th_idx = 1
    /\ th_pc = "idle" /\ th_attempt = 1 /\ th_code = 0 /\ th_ra = Missing
    /\ lastStart = NoStart /\ prevStart = NoStart
    \* no store is open and no wrapper is running
    /\ db_path = "none" /\ q_cols = {} /\ dl_cols = {} /\ enabled = FALSE
    /\ rows = <<>> /\ q_rows = 0 /\ query_id = {}
    /\ db_last = NoCall /\ db_log = <<>>
    /\ lastCall = [id \in ProductIds |-> "none"]
    /\ lastStored = [id \in ProductIds |-> "none"]
    /\ n_calls = 0 /\ write_failed = FALSE /\ db_pc = "idle"
    /\ w_kind = "none" /\ w_ready = <<>> /\ w_idx = 1 /\ w_j = 1
    /\ w_results = <<>> /\ w_plain = <<>> /\ w_ret = <<>>
    /\ succeeded = {} /\ w_buckets = <<>>
    \* the downloads table is not followed column by column
    /\ table = [id \in ColIds |-> NoRow] /\ tick = 0
    /\ last_mark = NoMark /\ lw = NoWrap
    \* no retry loop is followed attempt by attempt
    /\ rt_caller = "none" /\ rt_max = 1 /\ rt_attempt = 1
    /\ rt_seen = <<>> /\ rt_sleeps = 0 /\ rt_pc = "idle"

InitBackoff ==
    /\ \/ /\ bk_caller = "_request_with_retries"
          /\ backoff_factor \in BackoffFactors
          /\ max_backoff \in MaxBackoffs
       \/ /\ bk_caller = "_download_with_retries"
          /\ backoff_factor = DefaultBackoffFactor
          /\ max_backoff = DlMaxBackoff
    /\ bk_attempt = 1
    /\ bk_cur = NoSleep
    /\ bk_prevExp = NoExp
    \* the poller is not running
    /\ entry = "none" /\ n_total = 0 /\ idx = 1 /\ e = NoElem
    /\ ready = <<>> /\ queued = <<>> /\ unknown = <<>>
    /\ n_done = 0 /\ log = <<>> /\ pc = "idle"
    /\ attempt = 1 /\ max_retries = DefaultMaxRetries
    /\ resp = NoResp /\ ret = NoResp /\ nGets = 0 /\ priorCodes = {}
    /\ last = NoLast /\ fetched = <<>>
    \* download_items is not running
    /\ dready = <<>> /\ unzip = FALSE /\ keep_zip = TRUE /\ max_workers = 1
    /\ dpc = "idle" /\ run = 1
    /\ tasks = <<>> /\ results = <<>>
    /\ tpc = <<>> /\ item = <<>> /\ dattempt = <<>> /\ h = <<>> /\ off = <<>>
    /\ expected = <<>> /\ matched = <<>> /\ res = <<>>
    /\ files = EmptyFs /\ xdir = [n \in Names |-> "absent"]
    /\ done_order = <<>> /\ ac_called = FALSE /\ ac_first = {}
    \* no poll is followed on the clock
    /\ min_interval = 0 /\ last_ts = 0 /\ now = 0 /\ th_n = 0 /\ th_idx = 1
    /\ th_pc = "idle" /\ th_attempt = 1 /\ th_code = 0 /\ th_ra = Missing
    /\ lastStart = NoStart /\ prevStart = NoStart
    \* no store is open and no wrapper is running
    /\ db_path = "none" /\ q_cols = {} /\ dl_cols = {} /\ enabled = FALSE
    /\ rows = <<>> /\ q_rows = 0 /\ query_id = {}
    /\ db_last = NoCall /\ db_log = <<>>
    /\ lastCall = [id \in ProductIds |-> "none"]
    /\ lastStored = [id \in ProductIds |-> "none"]
    /\ n_calls = 0 /\ write_failed = FALSE /\ db_pc = "idle"
    /\ w_kind = "none" /\ w_ready = <<>> /\ w_idx = 1 /\ w_j = 1
    /\ w_results = <<>> /\ w_plain = <<>> /\ w_ret = <<>>
    /\ succeeded = {} /\ w_buckets = <<>>
    \* the downloads table is not followed column by column
    /\ table = [id \in ColIds |-> NoRow] /\ tick = 0
    /\ last_mark = NoMark /\ lw = NoWrap
    \* no retry loop is followed attempt by attempt
    /\ rt_caller = "none" /\ rt_max = 1 /\ rt_attempt = 1
    /\ rt_seen = <<>> /\ rt_sleeps = 0 /\ rt_pc = "idle"

InitThrottle ==
    /\ min_interval \in MinIntervals
    /\ th_n \in 1..MaxItems
    /\ th_idx = 1
    /\ th_pc = "top"
    /\ now \in {0, 4}
    /\ last_ts = 0
    /\ th_attempt = 1
    /\ th_ra = Missing
    /\ th_code = 0
    /\ lastStart = NoStart
    /\ prevStart = NoStart
    \* the poller is not running
    /\ entry = "none" /\ n_total = 0 /\ idx = 1 /\ e = NoElem
    /\ ready = <<>> /\ queued = <<>> /\ unknown = <<>>
    /\ n_done = 0 /\ log = <<>> /\ pc = "idle"
    /\ attempt = 1 /\ max_retries = DefaultMaxRetries
    /\ resp = NoResp /\ ret = NoResp /\ nGets = 0 /\ priorCodes = {}
    /\ last = NoLast /\ fetched = <<>>
    \* download_items is not running
    /\ dready = <<>> /\ unzip = FALSE /\ keep_zip = TRUE /\ max_workers = 1
    /\ dpc = "idle" /\ run = 1
    /\ tasks = <<>> /\ results = <<>>
    /\ tpc = <<>> /\ item = <<>> /\ dattempt = <<>> /\ h = <<>> /\ off = <<>>
    /\ expected = <<>> /\ matched = <<>> /\ res = <<>>
    /\ files = EmptyFs /\ xdir = [n \in Names |-> "absent"]
    /\ done_order = <<>> /\ ac_called = FALSE /\ ac_first = {}
    \* no retry sleep is followed
    /\ bk_caller = "none" /\ backoff_factor = DefaultBackoffFactor
    /\ max_backoff = DefaultMaxBackoff /\ bk_attempt = 1
    /\ bk_cur = NoSleep /\ bk_prevExp = NoExp
    \* no store is open and no wrapper is running
    /\ db_path = "none" /\ q_cols = {} /\ dl_cols = {} /\ enabled = FALSE
    /\ rows = <<>> /\ q_rows = 0 /\ query_id = {}
    /\ db_last = NoCall /\ db_log = <<>>
    /\ lastCall = [id \in ProductIds |-> "none"]
    /\ lastStored = [id \in ProductIds |-> "none"]
    /\ n_calls = 0 /\ write_failed = FALSE /\ db_pc = "idle"
    /\ w_kind = "none" /\ w_ready = <<>> /\ w_idx = 1 /\ w_j = 1
    /\ w_results = <<>> /\ w_plain = <<>> /\ w_ret = <<>>
    /\ succeeded = {} /\ w_buckets = <<>>
    \* the downloads table is not followed column by column
    /\ table = [id \in ColIds |-> NoRow] /\ tick = 0
    /\ last_mark = NoMark /\ lw = NoWrap
    \* no retry loop is followed attempt by attempt
    /\ rt_caller = "none" /\ rt_max = 1 /\ rt_attempt = 1
    /\ rt_seen = <<>> /\ rt_sleeps = 0 /\ rt_pc = "idle"

\* A caller opens a handle on any store and calls its write methods.
InitStore ==
    /\ db_path \in DbPaths
    /\ q_cols \in (IF db_path = "file" THEN QueryTables ELSE {{}})
    /\ dl_cols \in (IF db_path = "file" THEN DlTables ELSE {{}})
    /\ w_kind = "direct"
    /\ db_pc = "open"
    /\ enabled = FALSE
    /\ rows = <<>> /\ q_rows = 0 /\ query_id = {}
    /\ db_last = NoCall /\ db_log = <<>>
    /\ lastCall = [id \in ProductIds |-> "none"]
    /\ lastStored = [id \in ProductIds |-> "none"]
    /\ n_calls = 0 /\ write_failed = FALSE
    /\ w_ready = <<>> /\ w_idx = 1 /\ w_j = 1
    /\ w_results = <<>> /\ w_plain = <<>> /\ w_ret = <<>>
    /\ succeeded = {} /\ w_buckets = <<>>
    \* the poller is not running
    /\ entry = "none" /\ n_total = 0 /\ idx = 1 /\ e = NoElem
    /\ ready = <<>> /\ queued = <<>> /\ unknown = <<>>
    /\ n_done = 0 /\ log = <<>> /\ pc = "idle"
    /\ attempt = 1 /\ max_retries = DefaultMaxRetries
    /\ resp = NoResp /\ ret = NoResp /\ nGets = 0 /\ priorCodes = {}
    /\ last = NoLast /\ fetched = <<>>
    \* download_items is not running
    /\ dready = <<>> /\ unzip = FALSE /\ keep_zip = TRUE /\ max_workers = 1
    /\ dpc = "idle" /\ run = 1
    /\ tasks = <<>> /\ results = <<>>
    /\ tpc = <<>> /\ item = <<>> /\ dattempt = <<>> /\ h = <<>> /\ off = <<>>
    /\ expected = <<>> /\ matched = <<>> /\ res = <<>>
    /\ files = EmptyFs /\ xdir = [n \in Names |-> "absent"]
    /\ done_order = <<>> /\ ac_called = FALSE /\ ac_first = {}
    \* no retry sleep is followed
    /\ bk_caller = "none" /\ backoff_factor = DefaultBackoffFactor
    /\ max_backoff = DefaultMaxBackoff /\ bk_attempt = 1
    /\ bk_cur = NoSleep /\ bk_prevExp = NoExp
    \* no poll is followed on the clock
    /\ min_interval = 0 /\ last_ts = 0 /\ now = 0 /\ th_n = 0 /\ th_idx = 1
    /\ th_pc = "idle" /\ th_attempt = 1 /\ th_code = 0 /\ th_ra = Missing
    /\ lastStart = NoStart /\ prevStart = NoStart
    \* the downloads table is not followed column by column
    /\ table = [id \in ColIds |-> NoRow] /\ tick = 0
    /\ last_mark = NoMark /\ lw = NoWrap
    \* no retry loop is followed attempt by attempt
    /\ rt_caller = "none" /\ rt_max = 1 /\ rt_attempt = 1
    /\ rt_seen = <<>> /\ rt_sleeps = 0 /\ rt_pc = "idle"

\* A wrapper is constructed on a store that is absent, no database, without
\* the downloads table, or as the gate or the schema names its columns, and
\* is given a ready bucket.
InitWrapped ==
    /\ db_path \in DbPaths
    /\ q_cols \in (IF db_path = "file" THEN {ExpectedQueryCols} ELSE {{}})
    /\ dl_cols \in (IF db_path = "file"
                    THEN {{}, ExpectedDlCols, SchemaDlCols} ELSE {{}})
    /\ w_kind \in {"rcm_client", "dds_with_db"}
    /\ w_ready \in ReadyBuckets
    /\ db_pc = "open"
    /\ enabled = FALSE
    /\ rows = <<>> /\ q_rows = 0 /\ query_id = {}
    /\ db_last = NoCall /\ db_log = <<>>
    /\ lastCall = [id \in ProductIds |-> "none"]
    /\ lastStored = [id \in ProductIds |-> "none"]
    /\ n_calls = 0 /\ write_failed = FALSE
    /\ w_idx = 1 /\ w_j = 1
    /\ w_results = <<>> /\ w_plain = <<>> /\ w_ret = <<>>
    /\ succeeded = {} /\ w_buckets = <<>>
    \* the poller is not running
    /\ entry = "none" /\ n_total = 0 /\ idx = 1 /\ e = NoElem
    /\ ready = <<>> /\ queued = <<>> /\ unknown = <<>>
    /\ n_done = 0 /\ log = <<>> /\ pc = "idle"
    /\ attempt = 1 /\ max_retries = DefaultMaxRetries
    /\ resp = NoResp /\ ret = NoResp /\ nGets = 0 /\ priorCodes = {}
    /\ last = NoLast /\ fetched = <<>>
    \* download_items is not running
    /\ dready = <<>> /\ unzip = FALSE /\ keep_zip = TRUE /\ max_workers = 1
    /\ dpc = "idle" /\ run = 1
    /\ tasks = <<>> /\ results = <<>>
    /\ tpc = <<>> /\ item = <<>> /\ dattempt = <<>> /\ h = <<>> /\ off = <<>>
    /\ expected = <<>> /\ matched = <<>> /\ res = <<>>
    /\ files = EmptyFs /\ xdir = [n \in Names |-> "absent"]
    /\ done_order = <<>> /\ ac_called = FALSE /\ ac_first = {}
    \* no retry sleep is followed
    /\ bk_caller = "none" /\ backoff_factor = DefaultBackoffFactor
    /\ max_backoff = DefaultMaxBackoff /\ bk_attempt = 1
    /\ bk_cur = NoSleep /\ bk_prevExp = NoExp
    \* no poll is followed on the clock
    /\ min_interval = 0 /\ last_ts = 0 /\ now = 0 /\ th_n = 0 /\ th_idx = 1
    /\ th_pc = "idle" /\ th_attempt = 1 /\ th_code = 0 /\ th_ra = Missing
    /\ lastStart = NoStart /\ prevStart = NoStart
    \* the downloads table is not followed column by column
    /\ table = [id \in ColIds |-> NoRow] /\ tick = 0
    /\ last_mark = NoMark /\ lw = NoWrap
    \* no retry loop is followed attempt by attempt
    /\ rt_caller = "none" /\ rt_max = 1 /\ rt_attempt = 1
    /\ rt_seen = <<>> /\ rt_sleeps = 0 /\ rt_pc = "idle"

\* The downloads table is empty; mark methods are called on it directly, and
\* a wrapper marks one ready item before and after its download.
InitColumns ==
    /\ table = [id \in ColIds |-> NoRow] /\ tick = 0
    /\ last_mark = NoMark /\ lw = NoWrap
    \* no store is open and no wrapper is running
    /\ db_path = "none" /\ q_cols = {} /\ dl_cols = {}
    /\ w_kind = "direct" /\ db_pc = "idle" /\ enabled = FALSE
    /\ rows = <<>> /\ q_rows = 0 /\ query_id = {}
    /\ db_last = NoCall /\ db_log = <<>>
    /\ lastCall = [id \in ProductIds |-> "none"]
    /\ lastStored = [id \in ProductIds |-> "none"]
    /\ n_calls = 0 /\ write_failed = FALSE
    /\ w_ready = <<>> /\ w_idx = 1 /\ w_j = 1
    /\ w_results = <<>> /\ w_plain = <<>> /\ w_ret = <<>>
    /\ succeeded = {} /\ w_buckets = <<>>
    \* the poller is not running
    /\ entry = "none" /\ n_total = 0 /\ idx = 1 /\ e = NoElem
    /\ ready = <<>> /\ queued = <<>> /\ unknown = <<>>
    /\ n_done = 0 /\ log = <<>> /\ pc = "idle"
    /\ attempt = 1 /\ max_retries = DefaultMaxRetries
    /\ resp = NoResp /\ ret = NoResp /\ nGets = 0 /\ priorCodes = {}
    /\ last = NoLast /\ fetched = <<>>
    \* download_items is not running
    /\ dready = <<>> /\ unzip = FALSE /\ keep_zip = TRUE /\ max_workers = 1
    /\ dpc = "idle" /\ run = 1
    /\ tasks = <<>> /\ results = <<>>
    /\ tpc = <<>> /\ item = <<>> /\ dattempt = <<>> /\ h = <<>> /\ off = <<>>
    /\ expected = <<>> /\ matched = <<>> /\ res = <<>>
    /\ files = EmptyFs /\ xdir = [n \in Names |-> "absent"]
    /\ done_order = <<>> /\ ac_called = FALSE /\ ac_first = {}
    \* no retry sleep is followed
    /\ bk_caller = "none" /\ backoff_factor = DefaultBackoffFactor
    /\ max_backoff = DefaultMaxBackoff /\ bk_attempt = 1
    /\ bk_cur = NoSleep /\ bk_prevExp = NoExp
    \* no poll is followed on the clock
    /\ min_interval = 0 /\ last_ts = 0 /\ now = 0 /\ th_n = 0 /\ th_idx = 1
    /\ th_pc = "idle" /\ th_attempt = 1 /\ th_code = 0 /\ th_ra = Missing
    /\ lastStart = NoStart /\ prevStart = NoStart
    \* no retry loop is followed attempt by attempt
    /\ rt_caller = "none" /\ rt_max = 1 /\ rt_attempt = 1
    /\ rt_seen = <<>> /\ rt_sleeps = 0 /\ rt_pc = "idle"

\* A retry loop is entered: _request_with_retries with max_retries from 1 to
\* MaxRetriesArg, or _download_with_retries with its default.
InitRetry ==
    /\ rt_caller \in {"_request_with_retries", "_download_with_retries"}
    /\ rt_max \in 1..DlMaxRetries
    /\ rt_caller = "_download_with_retries" => rt_max = DlMaxRetries
    /\ rt_caller = "_request_with_retries" => rt_max <= MaxRetriesArg
    /\ rt_attempt = 1 /\ rt_seen = <<>> /\ rt_sleeps = 0 /\ rt_pc = "attempt"
    \* the downloads table is not followed column by column
    /\ table = [id \in ColIds |-> NoRow] /\ tick = 0
    /\ last_mark = NoMark /\ lw = NoWrap
    \* no store is open and no wrapper is running
    /\ db_path = "none" /\ q_cols = {} /\ dl_cols = {}
    /\ w_kind = "direct" /\ db_pc = "idle" /\ enabled = FALSE
    /\ rows = <<>> /\ q_rows = 0 /\ query_id = {}
    /\ db_last = NoCall /\ db_log = <<>>
    /\ lastCall = [id \in ProductIds |-> "none"]
    /\ lastStored = [id \in ProductIds |-> "none"]
    /\ n_calls = 0 /\ write_failed = FALSE
    /\ w_ready = <<>> /\ w_idx = 1 /\ w_j = 1
    /\ w_results = <<>> /\ w_plain = <<>> /\ w_ret = <<>>
    /\ succeeded = {} /\ w_buckets = <<>>
    \* the poller is not running
    /\ entry = "none" /\ n_total = 0 /\ idx = 1 /\ e = NoElem
    /\ ready = <<>> /\ queued = <<>> /\ unknown = <<>>
    /\ n_done = 0 /\ log = <<>> /\ pc = "idle"
    /\ attempt = 1 /\ max_retries = DefaultMaxRetries
    /\ resp = NoResp /\ ret = NoResp /\ nGets = 0 /\ priorCodes = {}
    /\ last = NoLast /\ fetched = <<>>
    \* download_items is not running
    /\ dready = <<>> /\ unzip = FALSE /\ keep_zip = TRUE /\ max_workers = 1
    /\ dpc = "idle" /\ run = 1
    /\ tasks = <<>> /\ results = <<>>
    /\ tpc = <<>> /\ item = <<>> /\ dattempt = <<>> /\ h = <<>> /\ off = <<>>
    /\ expected = <<>> /\ matched = <<>> /\ res = <<>>
    /\ files = EmptyFs /\ xdir = [n \in Names |-> "absent"]
    /\ done_order = <<>> /\ ac_called = FALSE /\ ac_first = {}
    \* no retry sleep is followed
    /\ bk_caller = "none" /\ backoff_factor = DefaultBackoffFactor
    /\ max_backoff = DefaultMaxBackoff /\ bk_attempt = 1
    /\ bk_cur = NoSleep /\ bk_prevExp = NoExp
    \* no poll is followed on the clock
    /\ min_interval = 0 /\ last_ts = 0 /\ now = 0 /\ th_n = 0 /\ th_idx = 1
    /\ th_pc = "idle" /\ th_attempt = 1 /\ th_code = 0 /\ th_ra = Missing
    /\ lastStart = NoStart /\ prevStart = NoStart

\* ------------------------------------------------------------------------
\* Specifications
\* ------------------------------------------------------------------------
SpecPoll == InitPoll /\ [][NextPoll]_vars

SpecDl == InitDl /\ [][NextDl]_vars

SpecDlTwice == InitDl /\ [][NextDl \/ Rerun]_vars

SpecBackoff == InitBackoff /\ [][NextBackoff]_vars

SpecThrottle == InitThrottle /\ [][NextThrottle]_vars

SpecStore == InitStore /\ [][NextStore]_vars

SpecWrapped == InitWrapped /\ [][NextWrapped]_vars

SpecColumns == InitColumns /\ [][NextColumns]_vars

SpecRetry == InitRetry /\ [][NextRetry]_vars

\* A poll or a download that keeps running: the interpreter takes the next
\* step of the loop it is in, every network call comes back, and the pool
\* runs a queued job whenever a worker is free.
SpecRuns ==
    /\ InitPoll \/ InitDl
    /\ [][NextPoll \/ NextDl]_vars
    /\ WF_vars(NextPoll) /\ WF_vars(NextDl)

\* ------------------------------------------------------------------------
\* Properties of the poller and the request executor (checked under SpecPoll)
\* ------------------------------------------------------------------------
AllRecs == ready \o queued \o unknown

InBucket(b, i) == \E k \in 1..Len(b) : b[k].src = i

CountOf(i) == Cardinality({ k \in 1..Len(AllRecs) : AllRecs[k].src = i })

RetryableStatus(c) == c = 429 \/ c \in 500..599

\* The executor call of the latest pass returned a response (did not raise).
ExecutorReturned == last.result \in {"returned", "record", "failed", "AttributeError"}

\* C1: bucket partition. In both poll entry points every item whose fetch
\* returned a record is in exactly one bucket (ready iff its status is
\* Available, queued iff Queued, unknown otherwise, a missing status
\* included), every item that was unresolved or whose fetch failed is in no
\* bucket, so the bucket lengths sum to at most len(input), and when the poll
\* returns they sum to len(input) exactly when no item was unresolved and no
\* fetch failed.
C1_BucketPartition ==
    IsPoll =>
      /\ \A i \in 1..Len(fetched) :
            IF fetched[i].result = "record"
            THEN /\ CountOf(i) = 1
                 /\ InBucket(ready, i) <=> fetched[i].status = "Available"
                 /\ InBucket(queued, i) <=> fetched[i].status = "Queued"
                 /\ InBucket(unknown, i) <=> fetched[i].status \notin {"Available", "Queued"}
            ELSE CountOf(i) = 0
      /\ \A k \in 1..Len(AllRecs) : AllRecs[k].src \in 1..Len(fetched)
      /\ Len(ready) + Len(queued) + Len(unknown) <= n_total
      /\ pc = "done" =>
            /\ Len(fetched) = n_total
            /\ (Len(ready) + Len(queued) + Len(unknown) = n_total)
                  <=> (\A i \in 1..Len(fetched) : fetched[i].result = "record")

\* A poll of two or more items returned with one item bucketed as unknown for
\* want of a status and another item dropped.
C1_Witness ==
    /\ IsPoll /\ pc = "done" /\ n_total >= 2
    /\ \E i \in 1..Len(fetched) : fetched[i] = Fetched("record", Missing)
    /\ \E i \in 1..Len(fetched) : fetched[i].result # "record"
    /\ Len(unknown) >= 1

\* C2: _request_with_retries returns the first 200/202 response at once; on
\* 429/5xx it sleeps and retries while attempts remain and otherwise returns
\* the last failing response; it raises only for a transport failure, never
\* for an HTTP status; it issues at most max_retries GETs.
C2_ExecutorContract ==
    /\ nGets <= max_retries
    /\ pc = "sleep" =>
          /\ resp.present /\ RetryableStatus(resp.code)
          /\ attempt < max_retries /\ nGets = attempt
    /\ ExecutorReturned =>
          /\ last.gets <= max_retries
          /\ last.gets >= 1 \/ max_retries = 0
          /\ \A c \in last.prior : RetryableStatus(c)
          /\ (last.resp.present /\ RetryableStatus(last.resp.code))
                => last.gets = max_retries
          /\ entry = "_request_with_retries" => (pc = "done" /\ ret = last.resp)
    /\ (pc = "raised" /\ entry = "_request_with_retries") => last.result = "transport"
    /\ (pc = "raised" /\ IsPoll)
          => last.result \in {"transport", "KeyError", "AttributeError"}

\* A direct call with max_retries = 3 got 503 three times and returned the
\* third 503 response.
C2_Witness ==
    /\ entry = "_request_with_retries" /\ pc = "done" /\ max_retries = 3
    /\ last.gets = 3 /\ last.prior = {503}
    /\ ret.present /\ ret.code = 503

\* C3: an item whose fetch got 429/5xx on attempts 1..k (k < max_retries) and
\* 200/202 with a record on attempt k+1 ends in the bucket its payload
\* names; an item that got 429/5xx on all max_retries attempts is in no
\* bucket, and no item is dropped on a 429/5xx before max_retries attempts.
C3_RetryThenBucket ==
    (IsPoll /\ ExecutorReturned /\ (\A c \in last.prior : RetryableStatus(c))) =>
      /\ (last.resp.present /\ last.resp.code \in {200, 202}
            /\ last.resp.body \in Statuses)
          => /\ last.result = "record"
             /\ fetched[last.item] = Fetched("record", last.resp.body)
             /\ CountOf(last.item) = 1
             /\ LET b == IF last.resp.body = "Available" THEN ready
                         ELSE IF last.resp.body = "Queued" THEN queued
                         ELSE unknown
                IN  Len(b) >= 1 /\ b[Len(b)] = Rec(last.item, last.resp.body)
      /\ (last.resp.present /\ RetryableStatus(last.resp.code))
          => /\ last.gets = max_retries
             /\ last.result = "failed"
             /\ fetched[last.item].result = "failed"
             /\ CountOf(last.item) = 0

\* 503 on attempts 1-4, 200 with status Available on attempt 5: in ready.
C3_Witness ==
    /\ IsPoll /\ last.result = "record" /\ last.gets = 5 /\ last.prior = {503}
    /\ max_retries = 5
    /\ last.resp.code = 200 /\ last.resp.body = "Available"
    /\ InBucket(ready, last.item)

\* An element of the input whose collection id and archive id resolve.
Resolves(x) ==
    IF entry = "get_items"
    THEN Truthy(x.collectionId) /\ Truthy(x.archiveId)
    ELSE /\ \E i \in 1..Len(x.query_data.coll) : Truthy(x.query_data.coll[i])
         /\ \/ \E i \in 1..Len(x.query_data.arch) : Truthy(x.query_data.arch[i])
            \/ Truthy(x.uuid)

\* C9: in both poll entry points an item whose collection id or archive id
\* cannot be resolved (missing or empty) is skipped with a warning and is in
\* no bucket, no request is made for it, and the poll goes on to the next
\* item instead of raising.
C9_ResolutionNeverFatal ==
    /\ (IsPoll /\ pc \in {"request", "sleep"}) => Resolves(e)
    /\ (IsPoll /\ last.item >= 1 /\ ~Resolves(e)) =>
          /\ last.result = "unresolved"
          /\ pc # "raised"
          /\ idx = last.item + 1
          /\ Len(log) >= 1 /\ log[Len(log)] = <<"skip-unresolved", last.item>>
          /\ CountOf(last.item) = 0

\* C10: an item whose fetch ends with a response other than a parsable
\* 200/202 is logged and dropped (in no bucket), the loop goes on with the
\* next item, and a poll that returns has run one pass per input item and
\* returns the records of the items that succeeded.
C10_FetchFailureIsolated ==
    /\ (IsPoll /\ ExecutorReturned
          /\ (~last.resp.present \/ last.resp.code \notin {200, 202}
                \/ last.resp.body = "invalid"))
        => /\ last.result = "failed"
           /\ pc \in {"loop", "done"}
           /\ idx = last.item + 1
           /\ n_done = last.item
           /\ Len(log) >= 1 /\ log[Len(log)] = <<"fetch-failure", last.item>>
           /\ CountOf(last.item) = 0
    /\ (IsPoll /\ pc = "done")
        => /\ n_done = n_total /\ idx = n_total + 1
           /\ Len(fetched) = n_total
           /\ \A i \in 1..n_total : fetched[i].result = "record" => CountOf(i) = 1

\* The first item was dropped on a 404, the second was fetched after it and
\* is in ready when the poll returns.
C10_Witness ==
    /\ IsPoll /\ pc = "done" /\ n_total = 2
    /\ fetched[1].result = "failed" /\ fetched[2] = Fetched("record", "Available")
    /\ Len(ready) = 1 /\ ready[1].src = 2
    /\ log = << <<"fetch-failure", 1>> >>

\* ------------------------------------------------------------------------
\* Properties of the downloader (checked under SpecDl and SpecDlTwice)
\* ------------------------------------------------------------------------
\* The task was built from a ready item and its job moved a file of its own
\* download into completed/.
Committed(t) == tpc[t] \in {"unzip", "ok", "collected"} /\ ~matched[t]

InResults(t) == \E k \in 1..Len(results) : results[k].task = t

UrlIndexes == { i \in 1..Len(dready) : dready[i] = "url" }

\* C4: Atomicity. No job ever holds an open, written-to handle on a file that
\* is at in_progress/<name> or completed/<name> (bytes go to the .part file
\* only), and whenever a job has moved its download into completed/ and an
\* expected size was known for that download, the file at completed/<name> is
\* absent or has exactly that size (never a partial file).
C4_CompletedAbsentOrVerified ==
    /\ \A t \in TaskIds : h[t] \notin {"ip", "fin"}
    /\ \A t \in TaskIds :
          (Committed(t) /\ expected[t] # {}) =>
             \/ files[<<"fin", NameOf(t)>>] = "absent"
             \/ SizeOf(files[<<"fin", NameOf(t)>>]) \in expected[t]

\* C5: Skip-if-complete. In a second run of download_items over the same
\* bucket and out_dir, a task whose expected size equals the size of the file
\* already at its completed path issues no network request: it is unzipping
\* that file or has returned its result.
C5_SkipIfComplete ==
    \A t \in TaskIds :
        (run = 2 /\ matched[t]) => tpc[t] \in {"skip_unzip", "ok", "collected"}

\* C6: Integrity check. When an expected size is known for an attempt (the
\* URL's size parameter, else the response's Content-Length), the file the
\* attempt renamed from <dest>.part to <dest> has exactly that size.
C6_SizeMismatchNeverRenamed ==
    \A t \in TaskIds :
        (tpc[t] = "replace2" /\ expected[t] # {}
           /\ files[<<"ip", NameOf(t)>>] # "absent") =>
              SizeOf(files[<<"ip", NameOf(t)>>]) \in expected[t]

\* C7: Failure isolation in the downloader. download_items never raises
\* because a job failed; when it returns, every task has run to its own
\* outcome (succeeded or failed permanently), and every task that succeeded
\* has its own result in the returned list.
C7_DownloadFailureIsolated ==
    /\ dpc # "raised"
    /\ dpc = "done" => \A t \in TaskIds : tpc[t] \in {"collected", "dropped"}
    /\ \A t \in TaskIds :
          tpc[t] = "collected" =>
             \E k \in 1..Len(results) : results[k] = res[t] /\ res[t].task = t

\* C7 witness: download_items returned after two jobs, one of which failed on
\* its last attempt and one of which succeeded and is the one result.
C7_Witness ==
    /\ dpc = "done" /\ Len(tasks) = 2
    /\ tpc[1] = "dropped" /\ dattempt[1] = DlMaxRetries
    /\ tpc[2] = "collected"
    /\ Len(results) = 1 /\ results[1].task = 2

\* C8: download_items builds exactly one task per ready item whose
\* download_url is non-empty, in order, and none for the other items; the
\* results hold exactly one entry per task that succeeded and none for a task
\* that failed; so len(results) <= len(tasks) <= len(ready).
C8_OneTaskPerUrlOneResultPerSuccess ==
    dpc \in {"pool", "done"} =>
       /\ { tasks[k] : k \in 1..Len(tasks) } = UrlIndexes
       /\ \A j, k \in 1..Len(tasks) : j < k => tasks[j] < tasks[k]
       /\ \A k \in 1..Len(results) :
             /\ results[k].task \in TaskIds
             /\ tpc[results[k].task] = "collected"
       /\ \A j, k \in 1..Len(results) :
             results[j].task = results[k].task => j = k
       /\ \A t \in TaskIds : tpc[t] \in {"failed", "dropped"} => ~InResults(t)
       /\ dpc = "done" => \A t \in TaskIds : InResults(t) <=> tpc[t] = "collected"
       /\ Len(results) <= Len(tasks) /\ Len(tasks) <= Len(dready)

\* C8 witness: a bucket of an item without download_url and one with it gave
\* one task, which succeeded and gave the one result.
C8_Witness ==
    /\ dpc = "done" /\ Len(dready) = 2
    /\ dready[1] = "none" /\ dready[2] = "url"
    /\ tasks = <<2>>
    /\ Len(results) = 1 /\ results[1].task = 1

\* ------------------------------------------------------------------------
\* Properties of the throttle and of the retry delays (checked under
\* SpecThrottle and SpecBackoff)
\* ------------------------------------------------------------------------
\* C11: Throttle. With rate_limit_per_sec > 0, any two consecutive catalog
\* requests of one poll, retries for the same item included, start at least
\* min_interval apart.
C11_ThrottleGap ==
    (min_interval > 0 /\ prevStart # NoStart) =>
        lastStart - prevStart >= min_interval

\* The seconds a Retry-After header names; -1 when it names none.
HeaderSeconds(ra) ==
    IF ra = "0" THEN 0 ELSE IF ra = "1" THEN 1 ELSE IF ra = "3" THEN 3 ELSE 0 - 1

\* C12: Backoff monotonicity. A delay before jitter that the exponential
\* formula gave never exceeds max_backoff and is not smaller than the
\* exponential delay of any earlier attempt, in _request_with_retries and in
\* _download_with_retries.
C12_BackoffMonotone ==
    (bk_cur.attempt > 0 /\ bk_cur.exp) =>
       /\ bk_cur.pre <= max_backoff
       /\ bk_prevExp.attempt > 0 =>
             /\ bk_prevExp.attempt < bk_cur.attempt
             /\ bk_prevExp.pre <= bk_cur.pre

\* C12 witness: with the defaults the executor's delay went from 16 s after
\* attempt 5 to the ceiling of 30 s after attempt 6.
C12_Witness ==
    /\ bk_caller = "_request_with_retries"
    /\ backoff_factor = DefaultBackoffFactor /\ max_backoff = DefaultMaxBackoff
    /\ bk_cur.exp /\ bk_cur.attempt = 6 /\ bk_cur.pre = DefaultMaxBackoff
    /\ bk_prevExp.attempt = 5 /\ bk_prevExp.pre = 16

\* C13: Retry-After. After a 429 whose Retry-After header names seconds the
\* delay before jitter is that number of seconds, whatever max_backoff is;
\* after any other response, or with an empty or unparsable header, it is
\* min(max_backoff, backoff_factor * 2^(attempt-1)); the delay slept is
\* between half of the delay before jitter and all of it.
C13_RetryAfterHonoured ==
    bk_cur.attempt > 0 =>
       LET c    == bk_cur
           secs == HeaderSeconds(c.ra)
           pow  == backoff_factor * Pow2(c.attempt - 1)
       IN  /\ (c.present /\ c.code = 429 /\ secs >= 0) => c.pre = secs
           /\ ~(c.present /\ c.code = 429 /\ secs >= 0) =>
                 c.pre = (IF pow < max_backoff THEN pow ELSE max_backoff)
           /\ c.pre <= c.slept /\ c.slept <= 2 * c.pre

\* C13 witness: a 429 with Retry-After: 3 under max_backoff = 0 gave a delay
\* of 3 s before jitter, of which 1.5 s were slept.
C13_Witness ==
    /\ bk_cur.attempt = 2 /\ bk_cur.present /\ bk_cur.code = 429 /\ bk_cur.ra = "3"
    /\ max_backoff = 0 /\ backoff_factor = 2
    /\ bk_cur.pre = 3 /\ bk_cur.slept = 3

\* ------------------------------------------------------------------------
\* Claims about the optional store and its wrappers
\* ------------------------------------------------------------------------
Opened == db_pc \notin {"idle", "open"}

RowCount(id) == Cardinality(RowsOf(rows, id))

\* The status of the first row of product id.
RowStatus(id) == rows[CHOOSE i \in RowsOf(rows, id) : \A j \in RowsOf(rows, id) : i <= j].status

\* C14: the handle is enabled exactly when a path is given, the file exists,
\* the connection succeeds, and the queries and the downloads table each
\* hold at least the columns the store's schema names for them.
C14_GateIsSchemaSubset ==
    Opened =>
       (enabled <=> /\ db_path = "file"
                    /\ ExpectedQueryCols \subseteq q_cols
                    /\ SchemaDlCols \subseteq dl_cols)

\* C15 as stated: on an enabled store, after any sequence of mark calls there
\* is at most one downloads row per product id, and its status is the one of
\* the most recent mark call for that id.
C15_StatusOfMostRecentCall ==
    enabled =>
       \A id \in ProductIds :
          /\ RowCount(id) <= 1
          /\ RowCount(id) = 1 => RowStatus(id) = StatusOf(lastCall[id])

\* C15, amended: on an enabled store, after any sequence of mark calls there
\* is at most one downloads row per product id, present exactly when the store
\* took a write for that id, and its status is the one of the most recent
\* mark call for that id whose write the store took.
C15_UpsertSemantics ==
    enabled =>
       \A id \in ProductIds :
          /\ RowCount(id) <= 1
          /\ RowCount(id) = 1 <=> lastStored[id] # "none"
          /\ RowCount(id) = 1 => RowStatus(id) = lastStored[id]

C15_Witness ==
    /\ enabled /\ Len(db_log) = 3
    /\ db_log[1] = [op |-> "mark_in_progress", id |-> "p1"]
    /\ db_log[2] = [op |-> "mark_failed", id |-> "p2"]
    /\ db_log[3] = [op |-> "mark_success", id |-> "p1"]
    /\ rows = <<Row("p1", "completed"), Row("p2", "failed")>>

\* C16: every write method of the handle (record_query, mark_in_progress,
\* mark_success, mark_failed) absorbs every error and returns to its caller,
\* record_query with None, whether the handle is disabled or the write fails.
C16_WritesNeverRaise ==
    /\ db_pc # "raised"
    /\ db_last.outcome \in {"none", "disabled", "written", "absorbed"}
    /\ (db_last.op = "record_query" /\ db_last.outcome # "written") => query_id = {}

C16_Witness ==
    /\ w_kind = "direct" /\ enabled /\ db_pc = "calls" /\ n_calls = 3
    /\ db_last = [op |-> "mark_success", id |-> "p1", outcome |-> "absorbed"]
    /\ rows = <<Row("p1", "in_progress")>> /\ query_id = {} /\ q_rows = 0

\* C17: what a wrapper returns is what the plain client returns, for the
\* buckets and for the download results, whether the store is absent, not
\* valid, enabled or failing on writes; a disabled handle writes no row.
C17_NonInterference ==
    /\ db_pc # "raised"
    /\ db_pc = "done" => w_ret = w_plain
    /\ (w_kind = "dds_with_db" /\ db_pc \notin {"open", "query"}) => w_buckets = w_ready
    /\ ~enabled => (rows = <<>> /\ q_rows = 0 /\ db_log = <<>>)

C17_Witness ==
    /\ db_pc = "done" /\ w_kind = "dds_with_db"
    /\ db_path = "file" /\ dl_cols = {} /\ ~enabled
    /\ Len(w_ret) = 2 /\ w_ret = w_plain /\ w_ret[1].task = 2
    /\ w_buckets = w_ready /\ rows = <<>>
    /\ db_last.op = "mark_success" /\ db_last.outcome = "disabled"

\* C18: within one wrapped download run, the in_progress write of a product
\* comes before its completed or failed write, and the pre-marking loop has
\* gone over the whole ready bucket before the downloads start.
C18_PremarkBeforeDownloads ==
    /\ db_pc \in {"success", "failure", "done"} => w_idx > Len(w_ready)
    /\ \A a, b \in 1..Len(db_log) :
          (/\ db_log[a].id = db_log[b].id
           /\ db_log[a].op = "mark_in_progress"
           /\ db_log[b].op \in {"mark_success", "mark_failed"}) => a < b

C18_Witness ==
    /\ db_pc = "done" /\ w_kind = "rcm_client" /\ Len(w_ready) = 2
    /\ db_log = << [op |-> "mark_in_progress", id |-> "p1"],
                   [op |-> "mark_in_progress", id |-> "p2"],
                   [op |-> "mark_success", id |-> "p2"],
                   [op |-> "mark_failed", id |-> "p1"] >>

\* ------------------------------------------------------------------------
\* Claims about the worker pool of download_items (checked under SpecDl)
\* ------------------------------------------------------------------------
\* C19: Disjoint filenames. No two tasks of one download_items call that
\* are at work at the same time use the same file name, hence the same
\* in_progress path, .part path or completed path.
C19_DisjointFilenames ==
    \A t, u \in Running : t # u => NameOf(t) # NameOf(u)

\* The place of a finished future among the finished ones not yet taken.
PosOf(t) == CHOOSE i \in 1..Len(done_order) : done_order[i] = t

\* Tasks are queued, at work, finished or taken, and at most max_workers are
\* at work.
PoolBounded ==
    dpc \in {"pool", "done"} =>
       /\ Cardinality(Running) <= max_workers
       /\ \A t \in TaskIds : t \in Running \/ tpc[t] = "queued" \/ Finished(t) \/ Taken(t)
       /\ \A k \in 1..Len(results) : tpc[results[k].task] = "collected"

\* The task whose result this step appends to results.
Appended == results'[Len(results')].task

\* C20 as stated: at every moment at most max_workers tasks are at work, the
\* others wait or are finished, and results are appended in the order in
\* which the tasks finished.
C20_CompletionOrder ==
    /\ []PoolBounded
    /\ [][Len(results') > Len(results) =>
              \A u \in TaskIds : (tpc[u] = "ok" /\ u # Appended)
                                     => PosOf(Appended) < PosOf(u)]_vars

\* C20, amended: at every moment at most max_workers tasks are at work and
\* the others wait or are finished; a result is appended only for a finished
\* task, and the tasks that finish after as_completed was called are taken in
\* the order in which they finished.
C20_BoundedPool ==
    /\ []PoolBounded
    /\ [][Len(results') > Len(results) =>
              /\ tpc[Appended] = "ok"
              /\ (ac_called /\ ac_first = {}) => Appended = Head(done_order)]_vars

C20_Witness ==
    /\ dpc = "done" /\ max_workers = 2 /\ Len(tasks) = 2
    /\ Len(results) = 2 /\ results[1].task = 2 /\ results[2].task = 1

\* ------------------------------------------------------------------------
\* Claims about extraction, cleanup and the returned files (download_items)
\* ------------------------------------------------------------------------
\* The job of task t has begun.
Begun(t) == tpc[t] # "queued"

\* The job of task t returned a result.
Succeeded(t) == tpc[t] \in {"ok", "collected"}

\* What a task that returned a result reports and leaves behind.
ExpansionOf(t) ==
    LET n == NameOf(t) IN
    IF unzip /\ IsZip(n)
    THEN /\ res[t].extracted_dir = n
         /\ xdir[n] = "extracted"
         /\ ~keep_zip => files[<<"fin", n>>] = "absent"
    ELSE /\ res[t].extracted_dir = None
         /\ xdir[n] = "absent"

\* C21: Archive expansion. With unzip and a name ending in .zip the archive
\* is extracted into completed/<stem>/, which is reported as extracted_dir,
\* and the archive is removed when keep_zip is false; a failed extraction
\* fails the task, which leaves no result, while the file stays in
\* completed/; without unzip, or for another name, extracted_dir is None and
\* nothing is extracted.
C21_ArchiveExpansion ==
    /\ [](\A t \in TaskIds : Succeeded(t) => ExpansionOf(t))
    /\ [](~unzip => \A n \in Names : xdir[n] = "absent")
    /\ [][\A t \in TaskIds :
            (tpc[t] = "unzip" /\ tpc'[t] = "failed") =>
               /\ files'[<<"fin", NameOf(t)>>] # "absent"
               /\ res'[t] = NoRes]_vars

\* The step ends an attempt of task t that had opened its .part file: the
\* loop goes to its next attempt or the job fails.
AttemptFails(t) ==
    /\ tpc[t] \in {"stream", "check", "replace1"}
    /\ dattempt'[t] > dattempt[t] \/ tpc'[t] = "failed"

C27_ResultDestExists ==
    dpc = "done" =>
       \A k \in 1..Len(results) :
          LET t == results[k].task IN
          /\ files[<<"fin", results[k].dest>>] # "absent"
          /\ files[<<"fin", results[k].dest>>] = item[t].download_url.data

\* ------------------------------------------------------------------------
\* Claims about the rows a wrapped download leaves (checked under SpecWrapped)
\* ------------------------------------------------------------------------
\* The wrapper returned, on an enabled store that took every write.
ReturnedAllStored(kind) ==
    w_kind = kind /\ db_pc = "done" /\ enabled /\ ~write_failed

\* The product ids the pre-marking loop marked.
Premarked == { WrapAid(w_ready[i]) : i \in { j \in 1..Len(w_ready) :
                   Truthy(WrapAid(w_ready[j])) /\ HasUrl(w_ready[j]) } }

\* C22: download_items_with_db marks a product failed when its download
\* fails; when it returns, on an enabled store whose writes succeed, no
\* product it pre-marked is still in_progress.
C22_NoneLeftInProgress ==
    ReturnedAllStored("dds_with_db") =>
       \A id \in Premarked : RowCount(id) = 1 /\ RowStatus(id) # "in_progress"

\* C23: when download_items of rcm_client returns, on an enabled store whose
\* writes succeed, every product it pre-marked is completed if a result with
\* its archiveId was returned and failed otherwise.
C23_CompletedOrFailed ==
    ReturnedAllStored("rcm_client") =>
       \A id \in Premarked :
          /\ RowCount(id) = 1
          /\ RowStatus(id) = IF \E k \in 1..Len(w_ret) : w_ret[k].archiveId = id
                             THEN "completed" ELSE "failed"

C23_Witness ==
    /\ ReturnedAllStored("rcm_client")
    /\ Premarked = {"p1", "p2"}
    /\ Len(w_ret) = 1 /\ w_ret[1].archiveId = "p1"
    /\ rows = <<Row("p1", "completed"), Row("p2", "failed")>>

\* C28: on a store that takes every write, every completed or failed write
\* of a wrapper for a product id comes after an in_progress write for that
\* id in the same run; no row is created as completed or failed.
C28_NoDirectFinalRow ==
    (enabled /\ ~write_failed) =>
       \A b \in 1..Len(db_log) :
          db_log[b].op \in {"mark_success", "mark_failed"} =>
             \E a \in 1..(b - 1) : /\ db_log[a].op = "mark_in_progress"
                                   /\ db_log[a].id = db_log[b].id

\* ------------------------------------------------------------------------
\* Claims about the columns of a row (checked under SpecColumns)
\* ------------------------------------------------------------------------
\* The columns each method may change on an existing row.
ClaimedColumns(op) ==
    IF op = "mark_success"
    THEN {"status", "file_path", "file_size_mb", "checksum", "acqusition_time",
          "publication_time", "latency", "updated_at"}
    ELSE {"status", "file_path", "updated_at"}

\* C29: on an existing product id, mark_in_progress and mark_failed change
\* only status, file_path and updated_at, and mark_success only status,
\* file_path, file_size_mb, checksum, the two times, latency and updated_at;
\* every other column of the row and every other row keep their values.
C29_UpsertFrame ==
    [][\A id \in ColIds :
          IF id = last_mark'.new.product_id
          THEN table[id].status # "absent" =>
                  \A c \in Columns \ ClaimedColumns(last_mark'.op) :
                     table'[id][c] = table[id][c]
          ELSE table'[id] = table[id]]_vars

C29_Witness ==
    /\ last_mark.existing /\ last_mark.op = "mark_success"
    /\ LET id == last_mark.new.product_id IN
       /\ table[id].status = "completed"
       /\ table[id].query_id # last_mark.new.query_id
       /\ table[id].product # last_mark.new.product
       /\ table[id].created_at < table[id].updated_at
       /\ table[id].file_path = last_mark.new.file_path
       /\ \E o \in ColIds \ {id} : table[o].status = "in_progress"

\* C30: for a ready item with both acquisitionEndDate and last_update, once
\* a wrapper has marked its successful download, the row is completed, still
\* holds both times recorded when it was marked in_progress, and holds the
\* latency: publication minus acquisition, in minutes.
C30_TimesAndLatencyKept ==
    (/\ lw.pc = "returned"
     /\ Dt(lw.item.acquisitionEndDate).type = "datetime"
     /\ Dt(lw.item.last_update).type = "datetime") =>
       LET r == table[lw.item.archiveId] IN
       /\ r.status = "completed"
       /\ r.acqusition_time = lw.marked.acqusition_time
       /\ r.publication_time = lw.marked.publication_time
       /\ r.latency = <<Dt(lw.item.last_update).minute
                        - Dt(lw.item.acquisitionEndDate).minute>>

\* ------------------------------------------------------------------------
\* Claims about what is retried (checked under SpecRetry)
\* ------------------------------------------------------------------------
\* What may cause another attempt: a 429 or 5xx response, a transport error
\* and, in the downloader, an integrity error.
CausesRetry(caller, o) ==
    \/ o.kind = "status" /\ RetryableStatus(o.code)
    \/ o.kind = "transport"
    \/ caller = "_download_with_retries" /\ o.kind = "integrity"

\* C25: only a 429 or 5xx response, a transport error and, in the
\* downloader, an integrity error are followed by another attempt; after any
\* other status the call ends with that attempt, without a backoff sleep.
C25_OnlyRetryableRetried ==
    /\ \A k \in 1..(Len(rt_seen) - 1) : CausesRetry(rt_caller, rt_seen[k])
    /\ rt_sleeps <= Cardinality({ k \in 1..Len(rt_seen) :
                                     CausesRetry(rt_caller, rt_seen[k]) })

\* ------------------------------------------------------------------------
\* Termination (checked under SpecRuns)
\* ------------------------------------------------------------------------
\* The entry point of the poller has ended: it returned, or raised.
PollEnded == pc \in {"done", "raised"}

\* download_items returned, every submitted task succeeded or failed for good.
DownloadEnded ==
    /\ dpc = "done"
    /\ \A t \in TaskIds : tpc[t] \in {"collected", "dropped"}

\* C26: every network call coming back, an executor call makes at most
\* max_retries requests and a download task at most its max_retries
\* attempts; get_items, get_items_from_results and download_items end, every
\* submitted task having succeeded or failed for good.
C26_Termination ==
    /\ [](nGets <= max_retries)
    /\ [](\A t \in TaskIds : dattempt[t] <= DlMaxRetries)
    /\ <>(PollEnded \/ DownloadEnded)

C26_Witness ==
    /\ DownloadEnded /\ Len(tasks) = 2
    /\ tpc = <<"dropped", "collected">>
    /\ dattempt = <<DlMaxRetries, DlMaxRetries>>

====
